---- MODULE Spec2Model ----
(***************************************************************************)
(* Thompson construction of NFA fragments (bever1337/nfa101).              *)
(*                                                                         *)
(*   - ANFA (src/src/anfa.rs): the explicit-ref automaton.  The caller     *)
(*     holds AutomataRef values and hands them back as operands.           *)
(*   - ForwardCompiler (src/src/compilers/forward_compiler.rs): the        *)
(*     stack-based compiler; operands are popped from automata_refs.       *)
(*                                                                         *)
(* State identifiers (QId) are 0-based as in the source; a table d holds   *)
(* the record of state q at d[q + 1].                                      *)
(***************************************************************************)
EXTENDS Integers, Sequences, FiniteSets, TLC

\* Largest state table the model builds (an appending call is not issued
\* when it would grow the table beyond this).
MaxStates == 5

\* Most refs the caller holds (a call that would return one more is not
\* issued).
MaxRefs == 3

\* Longest postfix operation sequence the driver issues.
MaxOps == 6

\* Deepest operand stack the postfix driver builds.
MaxDepth == 2

\* Longest input string an automaton is run on.
MaxLen == 3

\* Most value-based FA values the caller holds at once.
MaxMachines == 3

\* Most states the caller's FA values hold together.
MaxQ == 5

\* The symbols the caller draws literals from.
Alphabet == {"a", "b"}

\* Option<T>: None is the empty sequence, Some(x) the one-element sequence.
None == <<>>
Some(x) == <<x>>

\* AutomataRef { q0, f }
AutomataRef(q, fin) == [q0 |-> q, f |-> fin]

\* Result<AutomataRef, &'static str>
Ok(v) == [ok |-> TRUE, val |-> Some(v), err |-> ""]
Err(e) == [ok |-> FALSE, val |-> None, err |-> e]

\* self.delta[q]
At(d, q) == d[q + 1]

\* self.delta[q].push(edge)
PushEdge(d, q, edge) == [d EXCEPT ![q + 1] = Append(@, edge)]

ErrConcatDangling ==
    "Final states of machine_ref_a and machine_ref_b can NOT have transitions"
ErrStarDangling == "Final state of machine_ref_a can NOT have transitions"

VARIABLES
    delta,   \* ANFA.delta: Vec<Vec<(Option<char>, QId)>>
    q0,      \* ANFA.q0: Option<QId>
    f,       \* ANFA.f: Option<QId>
    refs,    \* the AutomataRefs the automaton has returned to the caller
    used,    \* the refs that were operands of a successful composition
    ret,     \* the last call: its name and the Result it returned
    anfa,    \* the forward compiler's automaton: delta and automata_refs
    api,     \* the API a postfix driver builds with
    prog,    \* the postfix operation sequence the driver has issued
    operands, \* the driver's stack of AutomataRefs (explicit-ref API)
    test_machine_b, \* associativity scenario: the automaton built as (a.b).c
    test_machine_c, \* associativity scenario: the automaton built as a.(b.c)
    test_refs_b,    \* the refs test_machine_b returned, in order
    test_refs_c,    \* the refs test_machine_c returned, in order
    fragments, \* the builder calls that made the three fragments
    coverage_machine, \* the dual compiler's coverage automaton
    machines, \* the value-based FA values the caller holds, oldest first
    successes \* how many calls of each construction operation returned Ok

anfaVars == <<delta, q0, f, refs, used>>
driverVars == <<api, prog, operands>>
assocVars == <<test_machine_b, test_machine_c, test_refs_b, test_refs_c, fragments>>
vars == <<delta, q0, f, refs, used, ret, anfa, api, prog, operands,
          test_machine_b, test_machine_c, test_refs_b, test_refs_c, fragments,
          coverage_machine, machines, successes>>

----------------------------------------------------------------------------
(* ANFA: each method as a function of the table, returning the new table   *)
(* and the Result.                                                         *)

\* ANFA::new(): an automaton as a value.
ANFA_new == [delta |-> <<>>, q0 |-> None, f |-> None]

\* Faulty variant of in_and_fin: q0 and f are exchanged.
ANFA_in_and_fin_swapped(a) ==
    [q0 |-> Some(a.f), f |-> Some(a.q0), res |-> [ok |-> TRUE, val |-> None, err |-> ""]]

\* in_and_fin: the new q0 and f, and the Result.
ANFA_in_and_fin(a) ==
    [q0 |-> Some(a.q0), f |-> Some(a.f), res |-> [ok |-> TRUE, val |-> None, err |-> ""]]

ANFA_expr_0(d) ==
    LET q == Len(d)
        d1 == Append(d, <<>>)
        fin == Len(d1)
        d2 == Append(d1, <<>>)
    IN  [delta |-> d2, res |-> Ok(AutomataRef(q, fin))]

\* Faulty variant of expr_1: a separate final state is pushed as well.
ANFA_expr_1_two_states(d) ==
    LET q == Len(d)
        d1 == Append(d, <<>>)
        d2 == Append(d1, <<>>)
    IN  [delta |-> d2, res |-> Ok(AutomataRef(q, q))]

ANFA_expr_1(d) ==
    LET q == Len(d)
        d1 == Append(d, <<>>)
    IN  [delta |-> d1, res |-> Ok(AutomataRef(q, q))]

\* Faulty variant of expr_a: the edge to the final state is unlabeled.
ANFA_expr_a_unlabeled(d, c) ==
    LET q == Len(d)
        fin == q + 1
        d1 == Append(d, << <<None, fin>> >>)
        d2 == Append(d1, <<>>)
    IN  [delta |-> d2, res |-> Ok(AutomataRef(q, fin))]

\* Faulty variant of expr_a: the labeled edge loops back to q0.
ANFA_expr_a_self_loop(d, c) ==
    LET q == Len(d)
        fin == q + 1
        d1 == Append(d, << <<Some(c), q>> >>)
        d2 == Append(d1, <<>>)
    IN  [delta |-> d2, res |-> Ok(AutomataRef(q, fin))]

ANFA_expr_a(d, c) ==
    LET q == Len(d)
        fin == q + 1
        d1 == Append(d, << <<Some(c), fin>> >>)
        d2 == Append(d1, <<>>)
    IN  [delta |-> d2, res |-> Ok(AutomataRef(q, fin))]

\* Faulty variant of concatenate: the edge enters b.f instead of b.q0.
ANFA_concatenate_to_b_f(d, a, b) ==
    IF ~(Len(At(d, a.f)) = 0 /\ Len(At(d, b.f)) = 0)
    THEN [delta |-> d, res |-> Err(ErrConcatDangling)]
    ELSE [delta |-> PushEdge(d, a.f, <<None, b.f>>),
          res |-> Ok(AutomataRef(a.q0, b.f))]

\* Faulty variant of concatenate: the edge leaves a.q0 instead of a.f.
ANFA_concatenate_patches_q0(d, a, b) ==
    IF ~(Len(At(d, a.f)) = 0 /\ Len(At(d, b.f)) = 0)
    THEN [delta |-> d, res |-> Err(ErrConcatDangling)]
    ELSE [delta |-> PushEdge(d, a.q0, <<None, b.q0>>),
          res |-> Ok(AutomataRef(a.q0, b.f))]

\* Faulty variant of concatenate: only machine_ref_a's final state is checked.
ANFA_concatenate_checks_a_only(d, a, b) ==
    IF Len(At(d, a.f)) = 0
    THEN LET d1 == PushEdge(d, a.f, <<None, b.q0>>)
         IN  [delta |-> d1, res |-> Ok(AutomataRef(a.q0, b.f))]
    ELSE [delta |-> d, res |-> Err(ErrConcatDangling)]

\* Faulty variant of concatenate: the returned ref keeps machine_ref_a's
\* final state.
ANFA_concatenate_returns_a(d, a, b) ==
    IF Len(At(d, a.f)) = 0 /\ Len(At(d, b.f)) = 0
    THEN LET d1 == PushEdge(d, a.f, <<None, b.q0>>)
         IN  [delta |-> d1, res |-> Ok(AutomataRef(a.q0, a.f))]
    ELSE [delta |-> d, res |-> Err(ErrConcatDangling)]

\* Faulty variant of concatenate: a joining state is pushed between the
\* operands.
ANFA_concatenate_adds_state(d, a, b) ==
    IF Len(At(d, a.f)) = 0 /\ Len(At(d, b.f)) = 0
    THEN LET q == Len(d)
             d1 == Append(d, << <<None, b.q0>> >>)
             d2 == PushEdge(d1, a.f, <<None, q>>)
         IN  [delta |-> d2, res |-> Ok(AutomataRef(a.q0, b.f))]
    ELSE [delta |-> d, res |-> Err(ErrConcatDangling)]

ANFA_concatenate(d, a, b) ==
    IF Len(At(d, a.f)) = 0 /\ Len(At(d, b.f)) = 0
    THEN LET d1 == PushEdge(d, a.f, <<None, b.q0>>)
         IN  [delta |-> d1, res |-> Ok(AutomataRef(a.q0, b.f))]
    ELSE [delta |-> d, res |-> Err(ErrConcatDangling)]

\* Faulty variant of star: the new initial state enters a.q0 directly, so
\* the operand must be matched at least once.
ANFA_star_one_or_more(d, a) ==
    IF Len(At(d, a.f)) = 0
    THEN LET q == Len(d)
             d1 == Append(d, <<>>)
             q_next == q + 1
             d2 == Append(d1, <<>>)
             fin == q_next + 1
             d3 == Append(d2, <<>>)
             d4 == PushEdge(d3, q, <<None, a.q0>>)
             d5 == PushEdge(d4, q_next, <<None, a.q0>>)
             d6 == PushEdge(d5, q_next, <<None, fin>>)
             d7 == PushEdge(d6, a.f, <<None, q_next>>)
         IN  [delta |-> d7, res |-> Ok(AutomataRef(q, fin))]
    ELSE [delta |-> d, res |-> Err(ErrStarDangling)]

\* Faulty variant of star: the fork's edges are pushed in the other order.
ANFA_star_fork_swapped(d, a) ==
    IF Len(At(d, a.f)) = 0
    THEN LET q == Len(d)
             d1 == Append(d, <<>>)
             q_next == q + 1
             d2 == Append(d1, <<>>)
             fin == q_next + 1
             d3 == Append(d2, <<>>)
             d4 == PushEdge(d3, q, <<None, q_next>>)
             d5 == PushEdge(d4, q_next, <<None, fin>>)
             d6 == PushEdge(d5, q_next, <<None, a.q0>>)
             d7 == PushEdge(d6, a.f, <<None, q_next>>)
         IN  [delta |-> d7, res |-> Ok(AutomataRef(q, fin))]
    ELSE [delta |-> d, res |-> Err(ErrStarDangling)]

\* Faulty variant of star: machine_ref_a's final state is pointed at the new
\* final state instead of the fork, so the fragment cannot repeat.
ANFA_star_no_loop(d, a) ==
    IF Len(At(d, a.f)) = 0
    THEN LET q == Len(d)
             d1 == Append(d, <<>>)
             q_next == q + 1
             d2 == Append(d1, <<>>)
             fin == q_next + 1
             d3 == Append(d2, <<>>)
             d4 == PushEdge(d3, q, <<None, q_next>>)
             d5 == PushEdge(d4, q_next, <<None, a.q0>>)
             d6 == PushEdge(d5, q_next, <<None, fin>>)
             d7 == PushEdge(d6, a.f, <<None, fin>>)
         IN  [delta |-> d7, res |-> Ok(AutomataRef(q, fin))]
    ELSE [delta |-> d, res |-> Err(ErrStarDangling)]

ANFA_star(d, a) ==
    IF Len(At(d, a.f)) = 0
    THEN LET q == Len(d)
             d1 == Append(d, <<>>)
             q_next == q + 1
             d2 == Append(d1, <<>>)
             fin == q_next + 1
             d3 == Append(d2, <<>>)
             d4 == PushEdge(d3, q, <<None, q_next>>)
             d5 == PushEdge(d4, q_next, <<None, a.q0>>)
             d6 == PushEdge(d5, q_next, <<None, fin>>)
             d7 == PushEdge(d6, a.f, <<None, q_next>>)
         IN  [delta |-> d7, res |-> Ok(AutomataRef(q, fin))]
    ELSE [delta |-> d, res |-> Err(ErrStarDangling)]

\* Faulty variant of union: both edges of the new initial state enter a.q0.
ANFA_union_first_only(d, a, b) ==
    IF Len(At(d, a.f)) = 0 /\ Len(At(d, b.f)) = 0
    THEN LET q == Len(d)
             d1 == Append(d, << <<None, a.q0>>, <<None, a.q0>> >>)
             fin == q + 1
             d2 == Append(d1, <<>>)
             d3 == PushEdge(d2, a.f, <<None, fin>>)
             d4 == PushEdge(d3, b.f, <<None, fin>>)
         IN  [delta |-> d4, res |-> Ok(AutomataRef(q, fin))]
    ELSE [delta |-> d, res |-> Err(ErrConcatDangling)]

\* Faulty variant of union: the final states are not checked.
ANFA_union_unchecked(d, a, b) ==
    LET q == Len(d)
        d1 == Append(d, << <<None, a.q0>>, <<None, b.q0>> >>)
        fin == q + 1
        d2 == Append(d1, <<>>)
        d3 == PushEdge(d2, a.f, <<None, fin>>)
        d4 == PushEdge(d3, b.f, <<None, fin>>)
    IN  [delta |-> d4, res |-> Ok(AutomataRef(q, fin))]

\* Faulty variant of union: machine_ref_b's final state is not patched.
ANFA_union_patches_a_only(d, a, b) ==
    IF Len(At(d, a.f)) = 0 /\ Len(At(d, b.f)) = 0
    THEN LET q == Len(d)
             d1 == Append(d, << <<None, a.q0>>, <<None, b.q0>> >>)
             fin == q + 1
             d2 == Append(d1, <<>>)
             d3 == PushEdge(d2, a.f, <<None, fin>>)
         IN  [delta |-> d3, res |-> Ok(AutomataRef(q, fin))]
    ELSE [delta |-> d, res |-> Err(ErrConcatDangling)]

ANFA_union(d, a, b) ==
    IF Len(At(d, a.f)) = 0 /\ Len(At(d, b.f)) = 0
    THEN LET q == Len(d)
             d1 == Append(d, << <<None, a.q0>>, <<None, b.q0>> >>)
             fin == q + 1
             d2 == Append(d1, <<>>)
             d3 == PushEdge(d2, a.f, <<None, fin>>)
             d4 == PushEdge(d3, b.f, <<None, fin>>)
         IN  [delta |-> d4, res |-> Ok(AutomataRef(q, fin))]
    ELSE [delta |-> d, res |-> Err(ErrConcatDangling)]

----------------------------------------------------------------------------
(* ForwardCompiler: each method as a function of the automaton it is given *)
(* (delta: Vec<(Option<char>, [Option<QId>; 2])>, automata_refs:           *)
(* Vec<[QId; 2]>), returning the automaton it leaves and the Result.       *)

ErrConcatOperands == "Concatenation requires two operands."
ErrConcatRace == "Concatenation requires two operands. (Race condition.)"
ErrStarOperands == "Star requires one operand."
ErrStarRace == "Star requires one operand. (Race condition.)"
ErrUnionOperands == "Union requires two operands."
ErrUnionRace == "Union requires two operands. (Race condition.)"

Unit == [ok |-> TRUE, val |-> None, err |-> ""]

\* anfa.delta[q] = rec
SetRecord(d, q, rec) == [d EXCEPT ![q + 1] = rec]

\* anfa.automata_refs.pop(): the popped value (None when empty) and the rest
Pop(stack) ==
    IF Len(stack) = 0
    THEN [val |-> None, rest |-> stack]
    ELSE [val |-> Some(stack[Len(stack)]), rest |-> SubSeq(stack, 1, Len(stack) - 1)]

ForwardCompiler_expr_0(m) ==
    LET q == Len(m.delta)
        fin == q + 1
        machine_a == <<q, fin>>
        d1 == Append(m.delta, <<None, <<None, None>> >>)
        d2 == Append(d1, <<None, <<None, None>> >>)
    IN  [anfa |-> [delta |-> d2, automata_refs |-> Append(m.automata_refs, machine_a)],
         res |-> Unit]

\* Faulty variant of expr_1: the new ref replaces the stack.
ForwardCompiler_expr_1_clears_stack(m) ==
    LET q == Len(m.delta)
    IN  [anfa |-> [delta |-> Append(m.delta, <<None, <<None, None>> >>),
                   automata_refs |-> << <<q, q>> >>],
         res |-> Unit]

ForwardCompiler_expr_1(m) ==
    LET q == Len(m.delta)
        fin == q
        machine_a == <<q, fin>>
        d1 == Append(m.delta, <<None, <<None, None>> >>)
    IN  [anfa |-> [delta |-> d1, automata_refs |-> Append(m.automata_refs, machine_a)],
         res |-> Unit]

ForwardCompiler_expr_a(m, c) ==
    LET q == Len(m.delta)
        fin == q + 1
        machine_a == <<q, fin>>
        d1 == Append(m.delta, <<Some(c), <<Some(fin), None>> >>)
        d2 == Append(d1, <<None, <<None, None>> >>)
    IN  [anfa |-> [delta |-> d2, automata_refs |-> Append(m.automata_refs, machine_a)],
         res |-> Unit]

\* Faulty variant of concatenate: the table's length is checked instead of
\* the stack's, as union does.
ForwardCompiler_concatenate_checks_table(m) ==
    IF Len(m.delta) \in {0, 1}
    THEN [anfa |-> m, res |-> Err(ErrConcatOperands)]
    ELSE
    LET pop_b == Pop(m.automata_refs)
    IN  IF pop_b.val = None
        THEN [anfa |-> [m EXCEPT !.automata_refs = pop_b.rest], res |-> Err(ErrConcatRace)]
        ELSE
        LET machine_b == pop_b.val[1]
            pop_a == Pop(pop_b.rest)
        IN  IF pop_a.val = None
            THEN [anfa |-> [m EXCEPT !.automata_refs = pop_a.rest],
                  res |-> Err(ErrConcatRace)]
            ELSE
            LET machine_a == pop_a.val[1]
                machine_c == <<machine_a[1], machine_b[2]>>
                d1 == SetRecord(m.delta, machine_a[2], <<None, <<Some(machine_b[1]), None>> >>)
            IN  [anfa |-> [delta |-> d1, automata_refs |-> Append(pop_a.rest, machine_c)],
                 res |-> Unit]

\* Faulty variant of concatenate: the edge enters b.f instead of b.q0.
ForwardCompiler_concatenate_to_b_f(m) ==
    IF Len(m.automata_refs) \in {0, 1}
    THEN [anfa |-> m, res |-> Err(ErrConcatOperands)]
    ELSE
    LET n == Len(m.automata_refs)
        machine_b == m.automata_refs[n]
        machine_a == m.automata_refs[n - 1]
        machine_c == <<machine_a[1], machine_b[2]>>
        d1 == SetRecord(m.delta, machine_a[2], <<None, <<Some(machine_b[2]), None>> >>)
    IN  [anfa |-> [delta |-> d1,
                   automata_refs |-> Append(SubSeq(m.automata_refs, 1, n - 2), machine_c)],
         res |-> Unit]

\* Faulty variant of concatenate: the ref pushed ends in a.f, which has just
\* been pointed at b.q0.
ForwardCompiler_concatenate_returns_a(m) ==
    IF Len(m.automata_refs) \in {0, 1}
    THEN [anfa |-> m, res |-> Err(ErrConcatOperands)]
    ELSE
    LET pop_b == Pop(m.automata_refs)
    IN  IF pop_b.val = None
        THEN [anfa |-> [m EXCEPT !.automata_refs = pop_b.rest], res |-> Err(ErrConcatRace)]
        ELSE
        LET machine_b == pop_b.val[1]
            pop_a == Pop(pop_b.rest)
        IN  IF pop_a.val = None
            THEN [anfa |-> [m EXCEPT !.automata_refs = pop_a.rest],
                  res |-> Err(ErrConcatRace)]
            ELSE
            LET machine_a == pop_a.val[1]
                machine_c == <<machine_a[1], machine_a[2]>>
                d1 == SetRecord(m.delta, machine_a[2], <<None, <<Some(machine_b[1]), None>> >>)
            IN  [anfa |-> [delta |-> d1, automata_refs |-> Append(pop_a.rest, machine_c)],
                 res |-> Unit]

ForwardCompiler_concatenate(m) ==
    IF Len(m.automata_refs) \in {0, 1}
    THEN [anfa |-> m, res |-> Err(ErrConcatOperands)]
    ELSE
    LET pop_b == Pop(m.automata_refs)
    IN  IF pop_b.val = None
        THEN [anfa |-> [m EXCEPT !.automata_refs = pop_b.rest], res |-> Err(ErrConcatRace)]
        ELSE
        LET machine_b == pop_b.val[1]
            pop_a == Pop(pop_b.rest)
        IN  IF pop_a.val = None
            THEN [anfa |-> [m EXCEPT !.automata_refs = pop_a.rest],
                  res |-> Err(ErrConcatRace)]
            ELSE
            LET machine_a == pop_a.val[1]
                machine_c == <<machine_a[1], machine_b[2]>>
                d1 == SetRecord(m.delta, machine_a[2], <<None, <<Some(machine_b[1]), None>> >>)
            IN  [anfa |-> [delta |-> d1, automata_refs |-> Append(pop_a.rest, machine_c)],
                 res |-> Unit]

\* Faulty variant of star: the intermediary's fork is [new f, a.q0].
ForwardCompiler_star_fork_swapped(m) ==
    IF Len(m.automata_refs) = 0
    THEN [anfa |-> m, res |-> Err(ErrStarOperands)]
    ELSE
    LET n == Len(m.automata_refs)
        machine_a == m.automata_refs[n]
        machine_b_q0 == Len(m.delta)
        machine_b_q == machine_b_q0 + 1
        machine_b_f == machine_b_q0 + 2
        machine_b == <<machine_b_q0, machine_b_f>>
        d1 == Append(m.delta, <<None, <<Some(machine_b_q), None>> >>)
        d2 == Append(d1, <<None, <<Some(machine_b_f), Some(machine_a[1])>> >>)
        d3 == Append(d2, <<None, <<None, None>> >>)
        d4 == SetRecord(d3, machine_a[2], <<None, <<Some(machine_b_q), None>> >>)
    IN  [anfa |-> [delta |-> d4,
                   automata_refs |-> Append(SubSeq(m.automata_refs, 1, n - 1), machine_b)],
         res |-> Unit]

\* Faulty variant of star: the new final state's index is one too far.
ForwardCompiler_star_f_off_by_one(m) ==
    IF Len(m.automata_refs) = 0
    THEN [anfa |-> m, res |-> Err(ErrStarOperands)]
    ELSE
    LET pop_a == Pop(m.automata_refs)
    IN  IF pop_a.val = None
        THEN [anfa |-> [m EXCEPT !.automata_refs = pop_a.rest], res |-> Err(ErrStarRace)]
        ELSE
        LET machine_a == pop_a.val[1]
            machine_b_q0 == Len(m.delta)
            machine_b_q == machine_b_q0 + 1
            machine_b_f == machine_b_q0 + 3
            machine_b == <<machine_b_q0, machine_b_f>>
            d1 == Append(m.delta, <<None, <<Some(machine_b_q), None>> >>)
            d2 == Append(d1, <<None, <<Some(machine_a[1]), Some(machine_b_f)>> >>)
            d3 == Append(d2, <<None, <<None, None>> >>)
            d4 == SetRecord(d3, machine_a[2], <<None, <<Some(machine_b_q), None>> >>)
        IN  [anfa |-> [delta |-> d4, automata_refs |-> Append(pop_a.rest, machine_b)],
             res |-> Unit]

\* Faulty variant of star: two operands are required, as for concatenate.
ForwardCompiler_star_needs_two(m) ==
    IF Len(m.automata_refs) \in {0, 1}
    THEN [anfa |-> m, res |-> Err(ErrStarOperands)]
    ELSE
    LET pop_a == Pop(m.automata_refs)
    IN  IF pop_a.val = None
        THEN [anfa |-> [m EXCEPT !.automata_refs = pop_a.rest], res |-> Err(ErrStarRace)]
        ELSE
        LET machine_a == pop_a.val[1]
            machine_b_q0 == Len(m.delta)
            machine_b_q == machine_b_q0 + 1
            machine_b_f == machine_b_q0 + 2
            machine_b == <<machine_b_q0, machine_b_f>>
            d1 == Append(m.delta, <<None, <<Some(machine_b_q), None>> >>)
            d2 == Append(d1, <<None, <<Some(machine_a[1]), Some(machine_b_f)>> >>)
            d3 == Append(d2, <<None, <<None, None>> >>)
            d4 == SetRecord(d3, machine_a[2], <<None, <<Some(machine_b_q), None>> >>)
        IN  [anfa |-> [delta |-> d4, automata_refs |-> Append(pop_a.rest, machine_b)],
             res |-> Unit]

ForwardCompiler_star(m) ==
    IF Len(m.automata_refs) = 0
    THEN [anfa |-> m, res |-> Err(ErrStarOperands)]
    ELSE
    LET pop_a == Pop(m.automata_refs)
    IN  IF pop_a.val = None
        THEN [anfa |-> [m EXCEPT !.automata_refs = pop_a.rest], res |-> Err(ErrStarRace)]
        ELSE
        LET machine_a == pop_a.val[1]
            machine_b_q0 == Len(m.delta)
            machine_b_q == machine_b_q0 + 1
            machine_b_f == machine_b_q0 + 2
            machine_b == <<machine_b_q0, machine_b_f>>
            d1 == Append(m.delta, <<None, <<Some(machine_b_q), None>> >>)
            d2 == Append(d1, <<None, <<Some(machine_a[1]), Some(machine_b_f)>> >>)
            d3 == Append(d2, <<None, <<None, None>> >>)
            d4 == SetRecord(d3, machine_a[2], <<None, <<Some(machine_b_q), None>> >>)
        IN  [anfa |-> [delta |-> d4, automata_refs |-> Append(pop_a.rest, machine_b)],
             res |-> Unit]

\* Faulty variant of union: machine_b's final state is not pointed at the
\* new final state.
ForwardCompiler_union_patches_a_only(m) ==
    LET machine_c_q0 == Len(m.delta)
        n == Len(m.automata_refs)
    IN  IF machine_c_q0 \in {0, 1}
        THEN [anfa |-> m, res |-> Err(ErrUnionOperands)]
        ELSE IF n < 2
        THEN [anfa |-> [m EXCEPT !.automata_refs = <<>>], res |-> Err(ErrUnionRace)]
        ELSE
        LET machine_c_f == machine_c_q0 + 1
            machine_c == <<machine_c_q0, machine_c_f>>
            machine_b == m.automata_refs[n]
            machine_a == m.automata_refs[n - 1]
            d1 == Append(m.delta, <<None, <<Some(machine_a[1]), Some(machine_b[1])>> >>)
            d2 == Append(d1, <<None, <<None, None>> >>)
            d3 == SetRecord(d2, machine_a[2], <<None, <<Some(machine_c_f), None>> >>)
        IN  [anfa |-> [delta |-> d3,
                       automata_refs |-> Append(SubSeq(m.automata_refs, 1, n - 2), machine_c)],
             res |-> Unit]

\* Faulty variant of union: the new initial state's fork is [a.q0, a.q0].
ForwardCompiler_union_first_only(m) ==
    LET machine_c_q0 == Len(m.delta)
        n == Len(m.automata_refs)
    IN  IF machine_c_q0 \in {0, 1}
        THEN [anfa |-> m, res |-> Err(ErrUnionOperands)]
        ELSE IF n < 2
        THEN [anfa |-> [m EXCEPT !.automata_refs = <<>>], res |-> Err(ErrUnionRace)]
        ELSE
        LET machine_c_f == machine_c_q0 + 1
            machine_c == <<machine_c_q0, machine_c_f>>
            machine_b == m.automata_refs[n]
            machine_a == m.automata_refs[n - 1]
            d1 == Append(m.delta, <<None, <<Some(machine_a[1]), Some(machine_a[1])>> >>)
            d2 == Append(d1, <<None, <<None, None>> >>)
            d3 == SetRecord(d2, machine_a[2], <<None, <<Some(machine_c_f), None>> >>)
            d4 == SetRecord(d3, machine_b[2], <<None, <<Some(machine_c_f), None>> >>)
        IN  [anfa |-> [delta |-> d4,
                       automata_refs |-> Append(SubSeq(m.automata_refs, 1, n - 2), machine_c)],
             res |-> Unit]

ForwardCompiler_union(m) ==
    LET machine_c_q0 == Len(m.delta)
    IN  IF machine_c_q0 \in {0, 1}
        THEN [anfa |-> m, res |-> Err(ErrUnionOperands)]
        ELSE
        LET machine_c_f == machine_c_q0 + 1
            machine_c == <<machine_c_q0, machine_c_f>>
            pop_b == Pop(m.automata_refs)
        IN  IF pop_b.val = None
            THEN [anfa |-> [m EXCEPT !.automata_refs = pop_b.rest],
                  res |-> Err(ErrUnionRace)]
            ELSE
            LET machine_b == pop_b.val[1]
                pop_a == Pop(pop_b.rest)
            IN  IF pop_a.val = None
                THEN [anfa |-> [m EXCEPT !.automata_refs = pop_a.rest],
                      res |-> Err(ErrUnionRace)]
                ELSE
                LET machine_a == pop_a.val[1]
                    d1 == Append(m.delta,
                                 <<None, <<Some(machine_a[1]), Some(machine_b[1])>> >>)
                    d2 == Append(d1, <<None, <<None, None>> >>)
                    d3 == SetRecord(d2, machine_a[2], <<None, <<Some(machine_c_f), None>> >>)
                    d4 == SetRecord(d3, machine_b[2], <<None, <<Some(machine_c_f), None>> >>)
                IN  [anfa |-> [delta |-> d4,
                               automata_refs |-> Append(pop_a.rest, machine_c)],
                     res |-> Unit]

----------------------------------------------------------------------------
(* The value-based FA API (lib.rs, accept.rs, from.rs).  An FA is the      *)
(* record of delta, q0 and f; a state of delta is a HashMap from           *)
(* Option<char> to Vec<QId>, kept here as the set of its <<key, value>>    *)
(* pairs; f is a Vec, in push order.                                       *)

FA(d, q, fin) == [delta |-> d, q0 |-> q, f |-> fin]

\* HashMap::get(&key)
Get(state, key) ==
    IF \E p \in state : p[1] = key
    THEN Some((CHOOSE p \in state : p[1] = key)[2])
    ELSE None

\* get_mut(&None) and push q, or else insert(None, vec![q])
PushEpsilon(state, q) ==
    IF Get(state, None) # None
    THEN {IF p[1] = None THEN <<None, Append(p[2], q)>> ELSE p : p \in state}
    ELSE state \cup {<<None, <<q>> >>}

\* A state's transitions with every target shifted by n.
Shifted(state, n) == {<<p[1], [i \in DOMAIN p[2] |-> p[2][i] + n]>> : p \in state}

\* for q in matches { push q_to onto delta[q]'s epsilon transitions }
RECURSIVE PointMatches(_, _, _)
PointMatches(d, matches, q_to) ==
    IF matches = <<>>
    THEN d
    ELSE PointMatches([d EXCEPT ![Head(matches) + 1] = PushEpsilon(@, q_to)],
                      Tail(matches), q_to)

ErrNoMatchStates == "No match states, cannot concatenate machine"

\* Faulty variant of epsilon: the two-state unit machine, whose q0 has an
\* epsilon transition to the match state.
accept_epsilon_two_states == Ok(FA(<<{<<None, <<1>> >>}, {}>>, 0, <<1>>))

accept_epsilon == Ok(FA(<<{}>>, 0, <<0>>))

accept_literal(c) == Ok(FA(<<{<<Some(c), <<1>> >>}, {}>>, 0, <<1>>))

accept_nothing == Ok(FA(<<{}>>, 0, <<>>))

\* Faulty variant of concatenation: only machine_a's match states are
\* counted.
from_concatenation_checks_a_only(machine_a, machine_b) ==
    IF Len(machine_a.f) = 0
    THEN Err(ErrNoMatchStates)
    ELSE LET machine_b_next_q0 == Len(machine_a.delta)
             pointed == PointMatches(machine_a.delta, machine_a.f, machine_b_next_q0)
             shifted == [i \in DOMAIN machine_b.delta |->
                            Shifted(machine_b.delta[i], machine_b_next_q0)]
             next_machine_c_matches ==
                 [i \in DOMAIN machine_b.f |-> machine_b.f[i] + machine_b_next_q0]
         IN  Ok(FA(pointed \o shifted, machine_a.q0, next_machine_c_matches))

\* Faulty variant of concatenation: machine_b's match states are kept
\* unshifted.
from_concatenation_unshifted_f(machine_a, machine_b) ==
    IF Len(machine_a.f) = 0 \/ Len(machine_b.f) = 0
    THEN Err(ErrNoMatchStates)
    ELSE LET machine_b_next_q0 == Len(machine_a.delta)
             pointed == PointMatches(machine_a.delta, machine_a.f, machine_b_next_q0)
             shifted == [i \in DOMAIN machine_b.delta |->
                            Shifted(machine_b.delta[i], machine_b_next_q0)]
         IN  Ok(FA(pointed \o shifted, machine_a.q0, machine_b.f))

from_concatenation(machine_a, machine_b) ==
    IF Len(machine_a.f) = 0 \/ Len(machine_b.f) = 0
    THEN Err(ErrNoMatchStates)
    ELSE LET machine_b_next_q0 == Len(machine_a.delta)
             pointed == PointMatches(machine_a.delta, machine_a.f, machine_b_next_q0)
             shifted == [i \in DOMAIN machine_b.delta |->
                            Shifted(machine_b.delta[i], machine_b_next_q0)]
             next_machine_c_matches ==
                 [i \in DOMAIN machine_b.f |-> machine_b.f[i] + machine_b_next_q0]
         IN  Ok(FA(pointed \o shifted, machine_a.q0, next_machine_c_matches))

from_star(machine_a) ==
    LET machine_b_q0 == Len(machine_a.delta)
        d1 == Append(machine_a.delta, {<<None, <<0>> >>})
        d2 == PointMatches(d1, machine_a.f, machine_b_q0)
    IN  Ok(FA(d2, machine_b_q0, Append(machine_a.f, machine_b_q0)))

from_union(machine_a, machine_b) ==
    LET machine_c_q0 == Len(machine_a.delta)
        machine_b_shift == machine_c_q0 + 1
        machine_c_delta_q0 == {<<None, <<machine_a.q0, machine_b_shift>> >>}
        shifted == [i \in DOMAIN machine_b.delta |->
                       Shifted(machine_b.delta[i], machine_b_shift)]
    IN  Ok(FA(Append(machine_a.delta, machine_c_delta_q0) \o shifted,
              machine_c_q0,
              machine_a.f \o [i \in DOMAIN machine_b.f |-> machine_b.f[i] + machine_b_shift]))

----------------------------------------------------------------------------
(* CoverageCompiler.  The dual compiler drives it beside the forward       *)
(* compiler.                                                               *)

\* The coverage compiler's automaton as the dual compiler's contract sees
\* it: how many logical operations have advanced it and how many operand
\* refs it holds.  A fresh automaton has neither.
CoverageCompiler_new == [operations |-> 0, operand_refs |-> 0]

ErrCoverageOperands == "InsufficientOperands"

\* A coverage builder always succeeds and leaves one more operand ref.
CoverageCompiler_expr_0(m) ==
    [anfa |-> [operations |-> m.operations + 1, operand_refs |-> m.operand_refs + 1],
     res |-> Unit]

CoverageCompiler_expr_1(m) ==
    [anfa |-> [operations |-> m.operations + 1, operand_refs |-> m.operand_refs + 1],
     res |-> Unit]

CoverageCompiler_expr_a(m, c) ==
    [anfa |-> [operations |-> m.operations + 1, operand_refs |-> m.operand_refs + 1],
     res |-> Unit]

\* Concatenate and union need two operand refs and leave one in their place;
\* star needs one and replaces it.  Without them the call fails and the
\* automaton is as before.
CoverageCompiler_concatenate(m) ==
    IF m.operand_refs < 2
    THEN [anfa |-> m, res |-> Err(ErrCoverageOperands)]
    ELSE [anfa |-> [operations |-> m.operations + 1, operand_refs |-> m.operand_refs - 1],
          res |-> Unit]

CoverageCompiler_star(m) ==
    IF m.operand_refs < 1
    THEN [anfa |-> m, res |-> Err(ErrCoverageOperands)]
    ELSE [anfa |-> [operations |-> m.operations + 1, operand_refs |-> m.operand_refs],
          res |-> Unit]

CoverageCompiler_union(m) ==
    IF m.operand_refs < 2
    THEN [anfa |-> m, res |-> Err(ErrCoverageOperands)]
    ELSE [anfa |-> [operations |-> m.operations + 1, operand_refs |-> m.operand_refs - 1],
          res |-> Unit]

----------------------------------------------------------------------------
(* BidirectionalCompiler (compilers/bidirectional_compiler.rs).  Every     *)
(* operation builds the array of both sub-compilers' results, so both      *)
(* calls are made and both automata are as the calls left them, and then   *)
(* matches on the array: Ok when both are Ok, else the forward error when  *)
(* there is one, else the coverage error.                                  *)

\* Faulty variant of the match: the coverage error is reported first.
BidirectionalCompiler_match_coverage_first(fr, cr) ==
    [forward |-> fr.anfa,
     coverage |-> cr.anfa,
     res |-> IF fr.res.ok /\ cr.res.ok THEN Unit
             ELSE IF ~cr.res.ok THEN Err(cr.res.err)
             ELSE Err(fr.res.err)]

BidirectionalCompiler_match(fr, cr) ==
    [forward |-> fr.anfa,
     coverage |-> cr.anfa,
     res |-> IF fr.res.ok /\ cr.res.ok THEN Unit
             ELSE IF ~fr.res.ok THEN Err(fr.res.err)
             ELSE Err(cr.res.err)]

BidirectionalCompiler_from_expr_0 ==
    BidirectionalCompiler_match(
        ForwardCompiler_expr_0([delta |-> <<>>, automata_refs |-> <<>>]),
        CoverageCompiler_expr_0(CoverageCompiler_new))

BidirectionalCompiler_from_expr_1 ==
    BidirectionalCompiler_match(
        ForwardCompiler_expr_1([delta |-> <<>>, automata_refs |-> <<>>]),
        CoverageCompiler_expr_1(CoverageCompiler_new))

BidirectionalCompiler_from_expr_a(c) ==
    BidirectionalCompiler_match(
        ForwardCompiler_expr_a([delta |-> <<>>, automata_refs |-> <<>>], c),
        CoverageCompiler_expr_a(CoverageCompiler_new, c))

BidirectionalCompiler_expr_0(forward_machine, cov_machine) ==
    BidirectionalCompiler_match(ForwardCompiler_expr_0(forward_machine),
                                CoverageCompiler_expr_0(cov_machine))

BidirectionalCompiler_expr_1(forward_machine, cov_machine) ==
    BidirectionalCompiler_match(ForwardCompiler_expr_1(forward_machine),
                                CoverageCompiler_expr_1(cov_machine))

BidirectionalCompiler_expr_a(forward_machine, cov_machine, c) ==
    BidirectionalCompiler_match(ForwardCompiler_expr_a(forward_machine, c),
                                CoverageCompiler_expr_a(cov_machine, c))

\* Faulty variant of concatenate: the coverage compiler is called only when
\* the forward call returned Ok.
BidirectionalCompiler_concatenate_short_circuit(forward_machine, cov_machine) ==
    LET fr == ForwardCompiler_concatenate(forward_machine)
    IN  IF fr.res.ok
        THEN BidirectionalCompiler_match(fr, CoverageCompiler_concatenate(cov_machine))
        ELSE [forward |-> fr.anfa, coverage |-> cov_machine, res |-> Err(fr.res.err)]

BidirectionalCompiler_concatenate(forward_machine, cov_machine) ==
    BidirectionalCompiler_match(ForwardCompiler_concatenate(forward_machine),
                                CoverageCompiler_concatenate(cov_machine))

BidirectionalCompiler_star(forward_machine, cov_machine) ==
    BidirectionalCompiler_match(ForwardCompiler_star(forward_machine),
                                CoverageCompiler_star(cov_machine))

BidirectionalCompiler_union(forward_machine, cov_machine) ==
    BidirectionalCompiler_match(ForwardCompiler_union(forward_machine),
                                CoverageCompiler_union(cov_machine))

----------------------------------------------------------------------------
(* The caller of the explicit-ref API: any call, with any refs the         *)
(* automaton has returned so far.                                          *)

\* The construction operations, and the count of their successful calls on
\* the automaton under construction.
Operations == {"expr_0", "expr_1", "expr_a", "concatenate", "star", "union"}

NoCalls == [op \in Operations |-> 0]

Tally(op, ok) == IF ok THEN [successes EXCEPT ![op] = @ + 1] ELSE successes

Call(op, r) == [op |-> op, ok |-> r.ok, val |-> r.val, err |-> r.err]

Returned(r) == IF r.ok THEN {r.val[1]} ELSE {}

\* One entry of `used`: ref was operand number pos of a successful op.
Operand(op, pos, ref) == [op |-> op, pos |-> pos, ref |-> ref]

Init ==
    /\ delta = <<>>
    /\ q0 = None
    /\ f = None
    /\ refs = {}
    /\ used = {}
    /\ ret = Call("new", Unit)
    /\ anfa = [delta |-> <<>>, automata_refs |-> <<>>]
    /\ api = "none"
    /\ prog = <<>>
    /\ operands = <<>>
    /\ test_machine_b = ANFA_new
    /\ test_machine_c = ANFA_new
    /\ test_refs_b = <<>>
    /\ test_refs_c = <<>>
    /\ fragments = <<>>
    /\ coverage_machine = CoverageCompiler_new
    /\ machines = <<>>
    /\ successes = NoCalls

\* Faulty variant of the builders' caller: the new fragment is finalized.
Builder_finalizes(op, r) ==
    /\ Len(r.delta) <= MaxStates
    /\ Cardinality(refs \cup Returned(r.res)) <= MaxRefs
    /\ delta' = r.delta
    /\ refs' = refs \cup Returned(r.res)
    /\ ret' = Call(op, r.res)
    /\ q0' = Some(r.res.val[1].q0)
    /\ f' = Some(r.res.val[1].f)
    /\ successes' = Tally(op, r.res.ok)
    /\ UNCHANGED <<coverage_machine, machines, used, anfa, driverVars, assocVars>>

Builder(op, r) ==
    /\ Len(r.delta) <= MaxStates
    /\ Cardinality(refs \cup Returned(r.res)) <= MaxRefs
    /\ delta' = r.delta
    /\ refs' = refs \cup Returned(r.res)
    /\ ret' = Call(op, r.res)
    /\ successes' = Tally(op, r.res.ok)
    /\ UNCHANGED <<coverage_machine, machines, q0, f, used, anfa, driverVars, assocVars>>

Composition(op, args, r) ==
    /\ Len(r.delta) <= MaxStates
    /\ Cardinality(refs \cup Returned(r.res)) <= MaxRefs
    /\ delta' = r.delta
    /\ refs' = refs \cup Returned(r.res)
    /\ used' = IF r.res.ok
               THEN used \cup {Operand(op, i, args[i]) : i \in DOMAIN args}
               ELSE used
    /\ ret' = Call(op, r.res)
    /\ successes' = Tally(op, r.res.ok)
    /\ UNCHANGED <<coverage_machine, machines, q0, f, anfa, driverVars, assocVars>>

in_and_fin_call(a) ==
    LET r == ANFA_in_and_fin(a)
    IN  /\ q0' = r.q0
        /\ f' = r.f
        /\ ret' = Call("in_and_fin", r.res)
        /\ UNCHANGED <<coverage_machine, machines, successes, delta, refs, used, anfa, driverVars, assocVars>>

expr_0_call == Builder("expr_0", ANFA_expr_0(delta))

expr_1_call == Builder("expr_1", ANFA_expr_1(delta))

expr_a_call(c) == Builder("expr_a", ANFA_expr_a(delta, c))

concatenate_call(a, b) ==
    Composition("concatenate", <<a, b>>, ANFA_concatenate(delta, a, b))

star_call(a) == Composition("star", <<a>>, ANFA_star(delta, a))

union_call(a, b) == Composition("union", <<a, b>>, ANFA_union(delta, a, b))

in_and_fin == \E a \in refs : in_and_fin_call(a)

expr_0 == expr_0_call

expr_1 == expr_1_call

expr_a == \E c \in Alphabet : expr_a_call(c)

concatenate == \E a \in refs, b \in refs : concatenate_call(a, b)

star == \E a \in refs : star_call(a)

union == \E a \in refs, b \in refs : union_call(a, b)

Next ==
    \/ in_and_fin
    \/ expr_0
    \/ expr_1
    \/ expr_a
    \/ concatenate
    \/ star
    \/ union

Spec == Init /\ [][Next]_vars

----------------------------------------------------------------------------
(* The caller of the forward compiler: any call at any time, the failing   *)
(* ones included.  The compiler keeps the fragments on anfa.automata_refs. *)

Forward(op, r) ==
    /\ Len(r.anfa.delta) <= MaxStates
    /\ anfa' = r.anfa
    /\ ret' = Call(op, r.res)
    /\ successes' = Tally(op, r.res.ok)
    /\ UNCHANGED <<coverage_machine, machines, anfaVars, driverVars, assocVars>>

forward_expr_0 == Forward("expr_0", ForwardCompiler_expr_0(anfa))

forward_expr_1 == Forward("expr_1", ForwardCompiler_expr_1(anfa))

forward_expr_a ==
    \E c \in Alphabet : Forward("expr_a", ForwardCompiler_expr_a(anfa, c))

forward_concatenate == Forward("concatenate", ForwardCompiler_concatenate(anfa))

forward_star == Forward("star", ForwardCompiler_star(anfa))

forward_union == Forward("union", ForwardCompiler_union(anfa))

ForwardNext ==
    \/ forward_expr_0
    \/ forward_expr_1
    \/ forward_expr_a
    \/ forward_concatenate
    \/ forward_star
    \/ forward_union

ForwardSpec == Init /\ [][ForwardNext]_vars

----------------------------------------------------------------------------
(* The caller of the dual compiler: the two automata come from one of the  *)
(* from_expr_* constructors, and then any operation is called at any time  *)
(* on both, the failing ones included.  The forward automaton is anfa.     *)

DualInit ==
    /\ delta = <<>>
    /\ q0 = None
    /\ f = None
    /\ refs = {}
    /\ used = {}
    /\ api = "none"
    /\ prog = <<>>
    /\ operands = <<>>
    /\ test_machine_b = ANFA_new
    /\ test_machine_c = ANFA_new
    /\ test_refs_b = <<>>
    /\ test_refs_c = <<>>
    /\ fragments = <<>>
    /\ machines = <<>>
    /\ \E call \in {<<"expr_0", BidirectionalCompiler_from_expr_0>>,
                      <<"expr_1", BidirectionalCompiler_from_expr_1>>}
                   \cup {<<"expr_a", BidirectionalCompiler_from_expr_a(c)>> : c \in Alphabet} :
           LET r == call[2]
           IN  /\ r.res.ok
               /\ anfa = r.forward
               /\ coverage_machine = r.coverage
               /\ ret = Call("from_expr", r.res)
               /\ successes = [NoCalls EXCEPT ![call[1]] = 1]

Dual(op, r) ==
    /\ Len(r.forward.delta) <= MaxStates
    /\ r.coverage.operations <= MaxOps
    /\ anfa' = r.forward
    /\ coverage_machine' = r.coverage
    /\ ret' = Call(op, r.res)
    /\ successes' = Tally(op, r.res.ok)
    /\ UNCHANGED <<anfaVars, driverVars, assocVars, machines>>

dual_expr_0 == Dual("expr_0", BidirectionalCompiler_expr_0(anfa, coverage_machine))

dual_expr_1 == Dual("expr_1", BidirectionalCompiler_expr_1(anfa, coverage_machine))

dual_expr_a ==
    \E c \in Alphabet :
        Dual("expr_a", BidirectionalCompiler_expr_a(anfa, coverage_machine, c))

dual_concatenate ==
    Dual("concatenate", BidirectionalCompiler_concatenate(anfa, coverage_machine))

dual_star == Dual("star", BidirectionalCompiler_star(anfa, coverage_machine))

dual_union == Dual("union", BidirectionalCompiler_union(anfa, coverage_machine))

DualNext ==
    \/ dual_expr_0
    \/ dual_expr_1
    \/ dual_expr_a
    \/ dual_concatenate
    \/ dual_star
    \/ dual_union

DualSpec == DualInit /\ [][DualNext]_vars

----------------------------------------------------------------------------
(* The caller of the value-based FA API.  It holds the machines it has     *)
(* made, makes new ones with the acceptors, and passes the newest one or   *)
(* two by value to star, union and concatenation: the operands are moved   *)
(* into the call, and the machine returned, if any, takes their place.     *)

FAInit ==
    /\ delta = <<>>
    /\ q0 = None
    /\ f = None
    /\ refs = {}
    /\ used = {}
    /\ ret = Call("new", Unit)
    /\ anfa = [delta |-> <<>>, automata_refs |-> <<>>]
    /\ api = "none"
    /\ prog = <<>>
    /\ operands = <<>>
    /\ test_machine_b = ANFA_new
    /\ test_machine_c = ANFA_new
    /\ test_refs_b = <<>>
    /\ test_refs_c = <<>>
    /\ fragments = <<>>
    /\ coverage_machine = CoverageCompiler_new
    /\ machines = <<>>
    /\ successes = NoCalls

RECURSIVE Held(_)
Held(ms) == IF ms = <<>> THEN 0 ELSE Len(Head(ms).delta) + Held(Tail(ms))

\* One call that takes the newest n machines and returns r.
FACall(op, n, r) ==
    /\ Len(machines) >= n
    /\ LET rest == SubSeq(machines, 1, Len(machines) - n)
           next == IF r.ok THEN Append(rest, r.val[1]) ELSE rest
       IN  /\ Len(next) <= MaxMachines
           /\ Held(next) <= MaxQ
           /\ machines' = next
    /\ ret' = Call(op, IF r.ok THEN Unit ELSE r)
    /\ UNCHANGED <<coverage_machine, successes, anfaVars, anfa, driverVars, assocVars>>

\* The machine n places below the newest one.
Machine(n) == machines[Len(machines) - n]

fa_epsilon == FACall("epsilon", 0, accept_epsilon)

fa_literal == \E c \in Alphabet : FACall("literal", 0, accept_literal(c))

fa_nothing == FACall("nothing", 0, accept_nothing)

fa_concatenation ==
    /\ Len(machines) >= 2
    /\ FACall("concatenation", 2, from_concatenation(Machine(1), Machine(0)))

fa_star ==
    /\ Len(machines) >= 1
    /\ FACall("star", 1, from_star(Machine(0)))

fa_union ==
    /\ Len(machines) >= 2
    /\ FACall("union", 2, from_union(Machine(1), Machine(0)))

FANext ==
    \/ fa_epsilon
    \/ fa_literal
    \/ fa_nothing
    \/ fa_concatenation
    \/ fa_star
    \/ fa_union

FASpec == FAInit /\ [][FANext]_vars

----------------------------------------------------------------------------
(* The associativity scenario of the explicit-ref API: three fragments are *)
(* created in the same order on two fresh automata; test_machine_b         *)
(* concatenates them as (a.b).c, test_machine_c as a.(b.c), and each is    *)
(* finalized on the result.  Every Result is unwrapped, so a call is a     *)
(* step only when it returns Ok.                                           *)

\* The symbols of the scenario's literals.
Alphabet3 == {"a", "b", "c"}

BuilderCalls == {<<"expr_0">>, <<"expr_1">>} \cup {<<"expr_a", c>> : c \in Alphabet3}

ANFA_build(d, call) ==
    CASE call[1] = "expr_0" -> ANFA_expr_0(d)
      [] call[1] = "expr_1" -> ANFA_expr_1(d)
      [] call[1] = "expr_a" -> ANFA_expr_a(d, call[2])

test_machine_b_expr ==
    /\ Len(test_refs_b) < 3
    /\ \E call \in BuilderCalls :
          LET r == ANFA_build(test_machine_b.delta, call)
          IN  /\ r.res.ok
              /\ test_machine_b' = [test_machine_b EXCEPT !.delta = r.delta]
              /\ test_refs_b' = Append(test_refs_b, r.res.val[1])
              /\ fragments' = Append(fragments, call)
    /\ UNCHANGED <<coverage_machine, machines, successes, anfaVars, ret, anfa, driverVars, test_machine_c, test_refs_c>>

\* machine_b_ref_ab = a.b, then machine_b_ref_abc = ab.c
test_machine_b_concatenate ==
    /\ Len(test_refs_b) \in {3, 4}
    /\ LET a == IF Len(test_refs_b) = 3 THEN test_refs_b[1] ELSE test_refs_b[4]
           b == IF Len(test_refs_b) = 3 THEN test_refs_b[2] ELSE test_refs_b[3]
           r == ANFA_concatenate(test_machine_b.delta, a, b)
       IN  /\ r.res.ok
           /\ test_machine_b' = [test_machine_b EXCEPT !.delta = r.delta]
           /\ test_refs_b' = Append(test_refs_b, r.res.val[1])
    /\ UNCHANGED <<coverage_machine, machines, successes, anfaVars, ret, anfa, driverVars, test_machine_c, test_refs_c, fragments>>

test_machine_b_in_and_fin ==
    /\ Len(test_refs_b) = 5
    /\ test_machine_b.q0 = None
    /\ LET r == ANFA_in_and_fin(test_refs_b[5])
       IN  /\ r.res.ok
           /\ test_machine_b' = [test_machine_b EXCEPT !.q0 = r.q0, !.f = r.f]
    /\ UNCHANGED <<coverage_machine, machines, successes, anfaVars, ret, anfa, driverVars, test_machine_c, test_refs_b, test_refs_c, fragments>>

\* test_machine_c is built once test_machine_b is finalized, from the same
\* builder calls in the same order.
test_machine_c_expr ==
    /\ test_machine_b.q0 # None
    /\ Len(test_refs_c) < 3
    /\ LET r == ANFA_build(test_machine_c.delta, fragments[Len(test_refs_c) + 1])
       IN  /\ r.res.ok
           /\ test_machine_c' = [test_machine_c EXCEPT !.delta = r.delta]
           /\ test_refs_c' = Append(test_refs_c, r.res.val[1])
    /\ UNCHANGED <<coverage_machine, machines, successes, anfaVars, ret, anfa, driverVars, test_machine_b, test_refs_b, fragments>>

\* machine_c_ref_bc = b.c, then machine_c_ref_abc = a.bc
test_machine_c_concatenate ==
    /\ Len(test_refs_c) \in {3, 4}
    /\ LET a == IF Len(test_refs_c) = 3 THEN test_refs_c[2] ELSE test_refs_c[1]
           b == IF Len(test_refs_c) = 3 THEN test_refs_c[3] ELSE test_refs_c[4]
           r == ANFA_concatenate(test_machine_c.delta, a, b)
       IN  /\ r.res.ok
           /\ test_machine_c' = [test_machine_c EXCEPT !.delta = r.delta]
           /\ test_refs_c' = Append(test_refs_c, r.res.val[1])
    /\ UNCHANGED <<coverage_machine, machines, successes, anfaVars, ret, anfa, driverVars, test_machine_b, test_refs_b, fragments>>

test_machine_c_in_and_fin ==
    /\ Len(test_refs_c) = 5
    /\ test_machine_c.q0 = None
    /\ LET r == ANFA_in_and_fin(test_refs_c[5])
       IN  /\ r.res.ok
           /\ test_machine_c' = [test_machine_c EXCEPT !.q0 = r.q0, !.f = r.f]
    /\ UNCHANGED <<coverage_machine, machines, successes, anfaVars, ret, anfa, driverVars, test_machine_b, test_refs_b, test_refs_c, fragments>>

AssocNext ==
    \/ test_machine_b_expr
    \/ test_machine_b_concatenate
    \/ test_machine_b_in_and_fin
    \/ test_machine_c_expr
    \/ test_machine_c_concatenate
    \/ test_machine_c_in_and_fin

AssocSpec == Init /\ [][AssocNext]_vars

----------------------------------------------------------------------------
(* A postfix driver: it issues a well-formed postfix operation sequence    *)
(* (every operator finds its operands) against one of the two APIs.  With  *)
(* the explicit-ref ANFA it keeps the returned refs on its own stack; the  *)
(* forward compiler keeps them in anfa.automata_refs.  With the           *)
(* explicit-ref ANFA the driver may end by finalizing the automaton on the *)
(* fragment on top of its stack.                                           *)

Arity(name) ==
    CASE name \in {"expr_0", "expr_1", "expr_a"} -> 0
      [] name \in {"star", "in_and_fin"} -> 1
      [] name \in {"concatenate", "union"} -> 2

\* The regular expressions a postfix sequence encodes: the stack of
\* expression trees left after evaluating it.
ApplyOp(op, st) ==
    LET n == Len(st)
    IN  CASE op[1] = "expr_0" -> Append(st, <<"nothing">>)
          [] op[1] = "expr_1" -> Append(st, <<"epsilon">>)
          [] op[1] = "expr_a" -> Append(st, <<"literal", op[2]>>)
          [] op[1] = "in_and_fin" -> st
          [] op[1] = "star" -> Append(SubSeq(st, 1, n - 1), <<"star", st[n]>>)
          [] op[1] = "concatenate" ->
                Append(SubSeq(st, 1, n - 2), <<"concatenate", st[n - 1], st[n]>>)
          [] op[1] = "union" ->
                Append(SubSeq(st, 1, n - 2), <<"union", st[n - 1], st[n]>>)

RECURSIVE DecodeFrom(_, _)
DecodeFrom(p, st) ==
    IF p = <<>> THEN st ELSE DecodeFrom(Tail(p), ApplyOp(Head(p), st))

Decode(p) == DecodeFrom(p, <<>>)

\* The driver may issue op next: the sequence stays well-formed and
\* bounded, and nothing follows in_and_fin.
MayIssue(name) ==
    /\ Len(prog) < MaxOps
    /\ q0 = None
    /\ Len(Decode(prog)) >= Arity(name)
    /\ Arity(name) = 0 => Len(Decode(prog)) < MaxDepth

PostfixInit ==
    /\ delta = <<>>
    /\ q0 = None
    /\ f = None
    /\ refs = {}
    /\ used = {}
    /\ ret = Call("new", Unit)
    /\ anfa = [delta |-> <<>>, automata_refs |-> <<>>]
    /\ api \in {"ANFA", "ForwardCompiler"}
    /\ prog = <<>>
    /\ operands = <<>>
    /\ test_machine_b = ANFA_new
    /\ test_machine_c = ANFA_new
    /\ test_refs_b = <<>>
    /\ test_refs_c = <<>>
    /\ fragments = <<>>
    /\ coverage_machine = CoverageCompiler_new
    /\ machines = <<>>
    /\ successes = NoCalls

\* One call of the explicit-ref API: the operands are the top refs of the
\* driver's stack, and the returned ref replaces them.
DriveANFA(op, n, r) ==
    /\ delta' = r.delta
    /\ ret' = Call(op[1], r.res)
    /\ operands' = IF r.res.ok
                   THEN Append(SubSeq(operands, 1, Len(operands) - n), r.res.val[1])
                   ELSE operands
    /\ prog' = Append(prog, op)
    /\ successes' = Tally(op[1], r.res.ok)
    /\ UNCHANGED <<coverage_machine, machines, q0, f, refs, used, anfa, api, assocVars>>

\* One call of the forward compiler.
DriveForward(op, r) ==
    /\ anfa' = r.anfa
    /\ ret' = Call(op[1], r.res)
    /\ prog' = Append(prog, op)
    /\ successes' = Tally(op[1], r.res.ok)
    /\ UNCHANGED <<coverage_machine, machines, anfaVars, api, operands, assocVars>>

Top(k) == operands[Len(operands) - k]

postfix_ANFA_expr_0 ==
    /\ api = "ANFA" /\ MayIssue("expr_0")
    /\ DriveANFA(<<"expr_0">>, 0, ANFA_expr_0(delta))

postfix_ANFA_expr_1 ==
    /\ api = "ANFA" /\ MayIssue("expr_1")
    /\ DriveANFA(<<"expr_1">>, 0, ANFA_expr_1(delta))

postfix_ANFA_expr_a ==
    /\ api = "ANFA" /\ MayIssue("expr_a")
    /\ \E c \in Alphabet : DriveANFA(<<"expr_a", c>>, 0, ANFA_expr_a(delta, c))

postfix_ANFA_concatenate ==
    /\ api = "ANFA" /\ MayIssue("concatenate")
    /\ DriveANFA(<<"concatenate">>, 2, ANFA_concatenate(delta, Top(1), Top(0)))

postfix_ANFA_star ==
    /\ api = "ANFA" /\ MayIssue("star")
    /\ DriveANFA(<<"star">>, 1, ANFA_star(delta, Top(0)))

postfix_ANFA_union ==
    /\ api = "ANFA" /\ MayIssue("union")
    /\ DriveANFA(<<"union">>, 2, ANFA_union(delta, Top(1), Top(0)))

postfix_ANFA_in_and_fin ==
    /\ api = "ANFA" /\ MayIssue("in_and_fin")
    /\ LET r == ANFA_in_and_fin(Top(0))
       IN  /\ q0' = r.q0
           /\ f' = r.f
           /\ ret' = Call("in_and_fin", r.res)
    /\ prog' = Append(prog, <<"in_and_fin">>)
    /\ UNCHANGED <<coverage_machine, machines, successes, delta, refs, used, anfa, api, operands, assocVars>>

postfix_Forward_expr_0 ==
    /\ api = "ForwardCompiler" /\ MayIssue("expr_0")
    /\ DriveForward(<<"expr_0">>, ForwardCompiler_expr_0(anfa))

postfix_Forward_expr_1 ==
    /\ api = "ForwardCompiler" /\ MayIssue("expr_1")
    /\ DriveForward(<<"expr_1">>, ForwardCompiler_expr_1(anfa))

postfix_Forward_expr_a ==
    /\ api = "ForwardCompiler" /\ MayIssue("expr_a")
    /\ \E c \in Alphabet : DriveForward(<<"expr_a", c>>, ForwardCompiler_expr_a(anfa, c))

postfix_Forward_concatenate ==
    /\ api = "ForwardCompiler" /\ MayIssue("concatenate")
    /\ DriveForward(<<"concatenate">>, ForwardCompiler_concatenate(anfa))

postfix_Forward_star ==
    /\ api = "ForwardCompiler" /\ MayIssue("star")
    /\ DriveForward(<<"star">>, ForwardCompiler_star(anfa))

postfix_Forward_union ==
    /\ api = "ForwardCompiler" /\ MayIssue("union")
    /\ DriveForward(<<"union">>, ForwardCompiler_union(anfa))

PostfixNext ==
    \/ postfix_ANFA_expr_0
    \/ postfix_ANFA_expr_1
    \/ postfix_ANFA_expr_a
    \/ postfix_ANFA_concatenate
    \/ postfix_ANFA_star
    \/ postfix_ANFA_union
    \/ postfix_ANFA_in_and_fin
    \/ postfix_Forward_expr_0
    \/ postfix_Forward_expr_1
    \/ postfix_Forward_expr_a
    \/ postfix_Forward_concatenate
    \/ postfix_Forward_star
    \/ postfix_Forward_union

PostfixSpec == PostfixInit /\ [][PostfixNext]_vars

----------------------------------------------------------------------------
(* Languages, over the strings of length at most MaxLen.                   *)

RECURSIVE WordsUpTo(_)
WordsUpTo(n) ==
    IF n = 0
    THEN {<<>>}
    ELSE LET W == WordsUpTo(n - 1)
         IN  W \cup {Append(w, c) : w \in W, c \in Alphabet}

Words == WordsUpTo(MaxLen)

Cat(A, B) == {w \in {u \o v : u \in A, v \in B} : Len(w) <= MaxLen}

RECURSIVE StarFrom(_, _)
StarFrom(A, S) ==
    LET T == S \cup Cat(S, A)
    IN  IF T = S THEN S ELSE StarFrom(A, T)

\* The strings a regular expression matches.
RECURSIVE Lang(_)
Lang(e) ==
    CASE e[1] = "nothing" -> {}
      [] e[1] = "epsilon" -> {<<>>}
      [] e[1] = "literal" -> {<<e[2]>>}
      [] e[1] = "concatenate" -> Cat(Lang(e[2]), Lang(e[3]))
      [] e[1] = "union" -> Lang(e[2]) \cup Lang(e[3])
      [] e[1] = "star" -> StarFrom(Lang(e[2]), {<<>>})

\* The edges <<source, label, destination>> of a table of the explicit-ref
\* ANFA: one per pair of a record.
ANFA_Edges(d) ==
    UNION {{<<i - 1, d[i][k][1], d[i][k][2]>> : k \in DOMAIN d[i]} : i \in DOMAIN d}

\* The edges of a table of the forward compiler: one per destination of a
\* record, carrying the record's label.
Forward_Edges(d) ==
    UNION {{<<i - 1, d[i][1], d[i][2][k][1]>> : k \in {j \in 1..2 : d[i][2][j] # None}}
           : i \in DOMAIN d}

\* The states reachable from S along unlabeled edges.
RECURSIVE EpsClosure(_, _)
EpsClosure(E, S) ==
    LET T == S \cup {e[3] : e \in {x \in E : x[1] \in S /\ x[2] = None}}
    IN  IF T = S THEN S ELSE EpsClosure(E, T)

\* The states reachable from S along one edge labeled c.
Move(E, S, c) == {e[3] : e \in {x \in E : x[1] \in S /\ x[2] = Some(c)}}

RECURSIVE Run(_, _, _)
Run(E, S, w) ==
    IF w = <<>>
    THEN S
    ELSE Run(E, EpsClosure(E, Move(E, S, Head(w))), Tail(w))

\* There is a path from start to fin whose labeled edges spell w and whose
\* other edges are unlabeled.
Accepts(E, start, fin, w) == fin \in Run(E, EpsClosure(E, {start}), w)

\* The strings over the symbols A that extend w by at most n symbols and
\* lead from the states S (those reached on w) to fin.
RECURSIVE AcceptedFrom(_, _, _, _, _, _)
AcceptedFrom(A, E, fin, w, S, n) ==
    (IF fin \in S THEN {w} ELSE {})
        \cup (IF n = 0 \/ S = {}
              THEN {}
              ELSE UNION {AcceptedFrom(A, E, fin, Append(w, c),
                                       EpsClosure(E, Move(E, S, c)), n - 1) : c \in A})

\* The strings over A of length at most MaxLen that the automaton accepts.
AcceptedOver(A, E, start, fin) ==
    AcceptedFrom(A, E, fin, <<>>, EpsClosure(E, {start}), MaxLen)

Accepted(E, start, fin) == AcceptedOver(Alphabet, E, start, fin)

\* C1: for every well-formed postfix sequence, every call succeeds and each
\* fragment left by the construction (in particular the single one left by
\* a complete sequence) accepts exactly the strings that the regular
\* expression encoded for it matches.
C1_FragmentAcceptsRegex ==
    LET es == Decode(prog)
    IN  /\ ret.ok
        /\ api = "ANFA" =>
            /\ Len(operands) = Len(es)
            /\ \A i \in DOMAIN es :
                Accepted(ANFA_Edges(delta), operands[i].q0, operands[i].f) = Lang(es[i])
        /\ api = "ForwardCompiler" =>
            /\ Len(anfa.automata_refs) = Len(es)
            /\ \A i \in DOMAIN es :
                Accepted(Forward_Edges(anfa.delta),
                         anfa.automata_refs[i][1], anfa.automata_refs[i][2]) = Lang(es[i])

\* C1 witness: a complete sequence left one fragment, a star over a union or
\* a concatenation with an epsilon or nothing operand, matching several
\* strings.
C1_Witness ==
    LET es == Decode(prog)
    IN  /\ api = "ForwardCompiler"
        /\ Len(es) = 1
        /\ es[1][1] = "star"
        /\ es[1][2][1] \in {"union", "concatenate"}
        /\ \E i \in DOMAIN prog : prog[i][1] \in {"expr_0", "expr_1"}
        /\ Cardinality(Lang(es[1])) >= 3
        /\ Accepted(Forward_Edges(anfa.delta),
                    anfa.automata_refs[1][1], anfa.automata_refs[1][2]) = Lang(es[1])

----------------------------------------------------------------------------
(* Properties of the explicit-ref ANFA.                                    *)

\* The refs that were operands of a successful composition.
UsedRefs == {u.ref : u \in used}

Compositions == {"concatenate", "star", "union"}

IsEmpty(d, q) == Len(At(d, q)) = 0

DanglingErrors == {ErrConcatDangling, ErrStarDangling}

\* The call failed and changed nothing of the automaton.
FailedUntouched ==
    /\ ret'.ok = FALSE
    /\ ret'.err \in DanglingErrors
    /\ delta' = delta
    /\ q0' = q0
    /\ f' = f

\* C2: concatenate, star and union given an operand ref whose final state's
\* record is non-empty return an error, and leave the table (length and
\* every record) and the automaton's q0/f as they were.
C2_DanglingOperandRejected ==
    [][ /\ ( /\ ret'.op = "concatenate"
             /\ \E a \in refs, b \in refs :
                    /\ ~IsEmpty(delta, a.f) \/ ~IsEmpty(delta, b.f)
                    /\ concatenate_call(a, b) )
            => FailedUntouched
        /\ ( /\ ret'.op = "star"
             /\ \E a \in refs : ~IsEmpty(delta, a.f) /\ star_call(a) )
            => FailedUntouched
        /\ ( /\ ret'.op = "union"
             /\ \E a \in refs, b \in refs :
                    /\ ~IsEmpty(delta, a.f) \/ ~IsEmpty(delta, b.f)
                    /\ union_call(a, b) )
            => FailedUntouched
      ]_vars

\* C2 witness: a composition was refused on a non-empty table that holds a
\* patched final state, after the automaton was finalized.
C2_Witness ==
    /\ ret.op \in Compositions
    /\ ret.ok = FALSE
    /\ q0 # None
    /\ \E r \in refs : ~IsEmpty(delta, r.f)

\* The refs whose final state a successful composition patched: every
\* operand but the right operand of concatenate.
Consumed == {u.ref : u \in {v \in used : ~(v.op = "concatenate" /\ v.pos = 2)}}

\* The step is a composition call with operand ref x.
CalledWith(x) ==
    \/ ret'.op = "concatenate"
        /\ \E b \in refs : concatenate_call(x, b) \/ concatenate_call(b, x)
    \/ ret'.op = "star" /\ star_call(x)
    \/ ret'.op = "union"
        /\ \E b \in refs : union_call(x, b) \/ union_call(b, x)

C4_ReturnedRefIsLive ==
    (ret.ok /\ ret.val # None) => IsEmpty(delta, ret.val[1].f)

\* C5: no record has more than two edges, and a record with two edges has
\* both unlabeled.
C5_AtMostTwoEdges ==
    \A i \in DOMAIN delta :
        /\ Len(delta[i]) <= 2
        /\ Len(delta[i]) = 2 => (delta[i][1][1] = None /\ delta[i][2][1] = None)

\* C5 witness: after a failed call, the table holds a labeled edge, a fork
\* and a final state that one union patched twice.
C5_Witness ==
    /\ ret.ok = FALSE
    /\ \E i \in DOMAIN delta : Len(delta[i]) = 1 /\ delta[i][1][1] # None
    /\ \E r \in refs :
        /\ Len(At(delta, r.q0)) = 2
        /\ \E x \in UsedRefs :
            /\ Len(At(delta, x.f)) = 2
            /\ At(delta, x.f)[1] = <<None, r.f>>
            /\ At(delta, x.f)[2] = <<None, r.f>>

\* C6: a successful concatenate(a, b) leaves the table length unchanged,
\* returns {q0: a.q0, f: b.f}, and leaves a.f with exactly one unlabeled edge
\* to b.q0.
C6_Concatenate ==
    [][ ret'.op = "concatenate" => \A a \in refs, b \in refs :
            (IsEmpty(delta, a.f) /\ IsEmpty(delta, b.f) /\ concatenate_call(a, b))
                => /\ ret'.ok
                   /\ Len(delta') = Len(delta)
                   /\ ret'.val = Some(AutomataRef(a.q0, b.f))
                   /\ At(delta', a.f) = << <<None, b.q0>> >> ]_vars

\* C6 witness: a concatenate succeeded, on operands with different finals.
C6_Witness ==
    /\ ret.op = "concatenate"
    /\ ret.ok
    /\ \E u \in used, v \in used :
        /\ u.op = "concatenate" /\ u.pos = 1
        /\ v.op = "concatenate" /\ v.pos = 2
        /\ u.ref.f # v.ref.f

\* C7: a successful star(a) appends exactly three states E, U, F; E has one
\* unlabeled edge to U, U has two unlabeled edges, to a.q0 then to F, F is
\* empty, a.f has an unlabeled edge to U, and the returned ref is {E, F}.
C7_Star ==
    [][ ret'.op = "star" => \A a \in refs :
            (IsEmpty(delta, a.f) /\ star_call(a))
                => LET E == Len(delta)
                       U == Len(delta) + 1
                       F == Len(delta) + 2
                   IN  /\ ret'.ok
                       /\ Len(delta') = Len(delta) + 3
                       /\ At(delta', E) = << <<None, U>> >>
                       /\ At(delta', U) = << <<None, a.q0>>, <<None, F>> >>
                       /\ At(delta', F) = <<>>
                       /\ At(delta', a.f) = << <<None, U>> >>
                       /\ ret'.val = Some(AutomataRef(E, F)) ]_vars

\* C7 witness: a star succeeded on a fragment with q0 # f.
C7_Witness ==
    /\ ret.op = "star"
    /\ ret.ok
    /\ \E u \in used : u.op = "star" /\ u.ref.q0 # u.ref.f

\* What C8 says of a successful union(a, b).
UnionPost(a, b) ==
    LET U == Len(delta)
        F == Len(delta) + 1
    IN  /\ ret'.ok
        /\ Len(delta') = Len(delta) + 2
        /\ At(delta', U) = << <<None, a.q0>>, <<None, b.q0>> >>
        /\ At(delta', F) = <<>>
        /\ At(delta', a.f) = << <<None, F>> >>
        /\ At(delta', b.f) = << <<None, F>> >>
        /\ ret'.val = Some(AutomataRef(U, F))

\* C8 as stated: a successful union(a, b), also of refs that share a final
\* state, appends U and F, U forks to a.q0 and b.q0, F is empty, a.f and
\* b.f each hold exactly one unlabeled edge to F, and {U, F} is returned.
C8_Union ==
    [][ ret'.op = "union" => \A a \in refs, b \in refs :
            (IsEmpty(delta, a.f) /\ IsEmpty(delta, b.f) /\ union_call(a, b))
                => UnionPost(a, b) ]_vars

\* C9: expr_a(c) always succeeds, appends exactly two states q0 # f, q0 has
\* exactly one edge, labeled c, to f, and f is empty.
C9_ExprA ==
    [][ \A c \in Alphabet :
            expr_a_call(c)
                => /\ ret'.ok
                   /\ Len(delta') = Len(delta) + 2
                   /\ SubSeq(delta', 1, Len(delta)) = delta
                   /\ \E r \in refs' :
                        /\ ret'.val = Some(r)
                        /\ r.q0 = Len(delta) /\ r.f = Len(delta) + 1
                        /\ r.q0 # r.f
                        /\ At(delta', r.q0) = << <<Some(c), r.f>> >>
                        /\ At(delta', r.f) = <<>> ]_vars

\* C9 witness: a literal was appended to a table that already held states.
C9_Witness ==
    /\ ret.op = "expr_a"
    /\ ret.ok
    /\ Len(delta) > 2

\* C10: expr_0 always succeeds and appends two empty states, q0 # f;
\* expr_1 always succeeds and appends one empty state, q0 = f.
C10_Expr0Expr1 ==
    [][ /\ expr_0_call
            => /\ ret'.ok
               /\ delta' = delta \o << <<>>, <<>> >>
               /\ ret'.val = Some(AutomataRef(Len(delta), Len(delta) + 1))
               /\ ret'.val[1].q0 # ret'.val[1].f
        /\ expr_1_call
            => /\ ret'.ok
               /\ delta' = delta \o << <<>> >>
               /\ ret'.val = Some(AutomataRef(Len(delta), Len(delta)))
               /\ ret'.val[1].q0 = ret'.val[1].f ]_vars

\* C10 witness: expr_1 was called after expr_0 on the same table.
C10_Witness ==
    /\ ret.op = "expr_1"
    /\ ret.ok
    /\ \E r \in refs : r.q0 # r.f /\ IsEmpty(delta, r.q0) /\ r.q0 < Len(delta) - 1

----------------------------------------------------------------------------
(* Finalization and the frame of the explicit-ref API.                     *)

\* C11: in_and_fin(ref) always returns Ok, sets q0 and f to the ref's q0
\* and f and leaves the table unchanged; no other call changes q0 or f, so
\* after any number of in_and_fin calls they are those of the last call.
C11_InAndFin ==
    [][ /\ \A a \in refs :
              in_and_fin_call(a)
                  => /\ ret'.ok
                     /\ q0' = Some(a.q0)
                     /\ f' = Some(a.f)
                     /\ delta' = delta
        /\ ret'.op # "in_and_fin" => (q0' = q0 /\ f' = f) ]_vars

\* C11 witness: the automaton was finalized on a composed fragment whose
\* initial and final states differ, and in_and_fin was the last call.
C11_Witness ==
    /\ ret.op = "in_and_fin"
    /\ ret.ok
    /\ used # {}
    /\ \E a \in refs : a.q0 # a.f /\ q0 = Some(a.q0) /\ f = Some(a.f)

\* C17: across any call the table never shrinks and no record that was
\* non-empty before the call differs after it; a pre-existing record that
\* changes is the previously-empty final-state record of an operand ref of
\* a successful composition, so the primitive builders change none.
C17_Frame ==
    [][ /\ Len(delta') >= Len(delta)
        /\ \A q \in 0..(Len(delta) - 1) :
              /\ ~IsEmpty(delta, q) => At(delta', q) = At(delta, q)
              /\ At(delta', q) # At(delta, q)
                    => /\ ret'.op \in Compositions
                       /\ ret'.ok
                       /\ \E a \in refs : a.f = q /\ CalledWith(a) ]_vars

\* C17 witness: a composition patched an operand's final state while the
\* table held a labeled record.
C17_Witness ==
    /\ ret.op \in Compositions
    /\ ret.ok
    /\ \E u \in used : ~IsEmpty(delta, u.ref.f)
    /\ \E q \in 0..(Len(delta) - 1) :
          Len(At(delta, q)) = 1 /\ At(delta, q)[1][1] # None

\* C18: a new automaton has an empty table and unset q0 and f, and while
\* they are unset every call other than in_and_fin leaves them unset.
C18_UnsetUntilFinalized ==
    /\ delta = <<>> /\ q0 = None /\ f = None
    /\ [][ (q0 = None /\ f = None /\ ret'.op # "in_and_fin")
              => (q0' = None /\ f' = None) ]_vars

\* C18 witness: builders and a composition have run and q0, f are unset.
C18_Witness ==
    /\ q0 = None
    /\ f = None
    /\ used # {}
    /\ Len(delta) >= 3

----------------------------------------------------------------------------
(* The stack-based forward compiler, call by call.                         *)

\* C19: concatenate with at least two refs on the stack succeeds, leaves
\* the table length unchanged, shrinks the stack by one, sets the record of
\* a.f (a the second-from-top ref, b the top) to a single unlabeled edge to
\* b.q0, and pushes [a.q0, b.f].
C19_ForwardConcatenate ==
    [][ (forward_concatenate /\ Len(anfa.automata_refs) >= 2)
            => LET n == Len(anfa.automata_refs)
                   a == anfa.automata_refs[n - 1]
                   b == anfa.automata_refs[n]
               IN  /\ ret'.ok
                   /\ Len(anfa'.delta) = Len(anfa.delta)
                   /\ Len(anfa'.automata_refs) = n - 1
                   /\ At(anfa'.delta, a[2]) = <<None, <<Some(b[1]), None>> >>
                   /\ anfa'.automata_refs[n - 1] = <<a[1], b[2]>> ]_vars

\* C19 witness: two fragments, the left one a literal, were concatenated.
C19_Witness ==
    /\ ret.op = "concatenate"
    /\ ret.ok
    /\ Len(anfa.delta) >= 4
    /\ \E i \in DOMAIN anfa.automata_refs :
          At(anfa.delta, anfa.automata_refs[i][1])[1] # None

\* C20: star with at least one ref a on the stack succeeds, keeps the stack
\* size, appends exactly three states, makes a.f an unlabeled edge to the
\* new intermediary state whose record is the fork [a.q0, new f], and
\* replaces the top ref by one whose q0 differs from a.q0 and f from a.f.
C20_ForwardStar ==
    [][ (forward_star /\ Len(anfa.automata_refs) >= 1)
            => LET n == Len(anfa.automata_refs)
                   a == anfa.automata_refs[n]
                   len == Len(anfa.delta)
               IN  /\ ret'.ok
                   /\ Len(anfa'.automata_refs) = n
                   /\ SubSeq(anfa'.automata_refs, 1, n - 1)
                        = SubSeq(anfa.automata_refs, 1, n - 1)
                   /\ Len(anfa'.delta) = len + 3
                   /\ \E q \in len..(len + 2) :
                        /\ At(anfa'.delta, a[2]) = <<None, <<Some(q), None>> >>
                        /\ At(anfa'.delta, q)
                             = <<None, <<Some(a[1]), Some(anfa'.automata_refs[n][2])>> >>
                   /\ anfa'.automata_refs[n][2] \in len..(len + 2)
                   /\ anfa'.automata_refs[n][1] # a[1]
                   /\ anfa'.automata_refs[n][2] # a[2] ]_vars

\* C20 witness: the star of a literal fragment was built.
C20_Witness ==
    /\ ret.op = "star"
    /\ ret.ok
    /\ \E q \in 0..(Len(anfa.delta) - 1) : At(anfa.delta, q)[1] # None

----------------------------------------------------------------------------
(* Associativity of concatenation, and the example automata.               *)

Finalized(m) == m.q0 # None /\ m.f # None

\* C12: with three fragments created in the same order on two fresh
\* automata, finalizing concatenate(concatenate(a, b), c) on one and
\* concatenate(a, concatenate(b, c)) on the other yields automata that are
\* equal field by field: the same table, the same q0 and the same f.
C12_ConcatenateAssociative ==
    (Finalized(test_machine_b) /\ Finalized(test_machine_c))
        => /\ test_machine_b.delta = test_machine_c.delta
           /\ test_machine_b.q0 = test_machine_c.q0
           /\ test_machine_b.f = test_machine_c.f

\* C12 witness: both automata were finalized on literals a, b, c.
C12_Witness ==
    /\ Finalized(test_machine_b)
    /\ Finalized(test_machine_c)
    /\ fragments = << <<"expr_a", "a">>, <<"expr_a", "b">>, <<"expr_a", "c">> >>
    /\ Len(test_machine_c.delta) = 6

\* C13: three literals x, y, z (in particular a, b, c) concatenated in
\* either association and finalized accept the string xyz and no other
\* string over the alphabet.
C13_AcceptsAbc ==
    \A x \in Alphabet3, y \in Alphabet3, z \in Alphabet3 :
        fragments = << <<"expr_a", x>>, <<"expr_a", y>>, <<"expr_a", z>> >>
            => \A m \in {test_machine_b, test_machine_c} :
                  Finalized(m)
                      => AcceptedOver(Alphabet3, ANFA_Edges(m.delta), m.q0[1], m.f[1])
                            = {<<x, y, z>>}

\* C13 witness: the two automata of literals a, b, c are finalized and
\* accept "abc".
C13_Witness ==
    /\ fragments = << <<"expr_a", "a">>, <<"expr_a", "b">>, <<"expr_a", "c">> >>
    /\ Finalized(test_machine_b)
    /\ Finalized(test_machine_c)
    /\ Accepts(ANFA_Edges(test_machine_b.delta), test_machine_b.q0[1], test_machine_b.f[1],
               <<"a", "b", "c">>)
    /\ Accepts(ANFA_Edges(test_machine_c.delta), test_machine_c.q0[1], test_machine_c.f[1],
               <<"a", "b", "c">>)

\* C14: the star of a literal (in particular 'a'), finalized, accepts the
\* empty string and every string made only of that symbol, and rejects
\* every string that contains another symbol.
C14_StarOfLiteral ==
    \A c \in Alphabet :
        (api = "ANFA" /\ prog = << <<"expr_a", c>>, <<"star">>, <<"in_and_fin">> >>)
            => Accepted(ANFA_Edges(delta), q0[1], f[1])
                  = {w \in Words : \A i \in DOMAIN w : w[i] = c}

\* C14 witness: the star of literal 'a' is finalized; it accepts "" and
\* "aa" and rejects "ab".
C14_Witness ==
    /\ api = "ANFA"
    /\ prog = << <<"expr_a", "a">>, <<"star">>, <<"in_and_fin">> >>
    /\ Accepts(ANFA_Edges(delta), q0[1], f[1], <<>>)
    /\ Accepts(ANFA_Edges(delta), q0[1], f[1], <<"a", "a">>)
    /\ ~Accepts(ANFA_Edges(delta), q0[1], f[1], <<"a", "b">>)

\* C15: the union of two literals (in particular 'a' and 'b'), finalized,
\* accepts exactly the two one-symbol strings: not the empty string and not
\* the two symbols in a row.
C15_UnionOfLiterals ==
    \A x \in Alphabet, y \in Alphabet :
        (/\ api = "ANFA"
         /\ prog = << <<"expr_a", x>>, <<"expr_a", y>>, <<"union">>, <<"in_and_fin">> >>)
            => Accepted(ANFA_Edges(delta), q0[1], f[1]) = {<<x>>, <<y>>}

\* C15 witness: the union of literals 'a' and 'b' is finalized; it accepts
\* "a" and "b" and rejects "" and "ab".
C15_Witness ==
    /\ api = "ANFA"
    /\ prog = << <<"expr_a", "a">>, <<"expr_a", "b">>, <<"union">>, <<"in_and_fin">> >>
    /\ Accepts(ANFA_Edges(delta), q0[1], f[1], <<"a">>)
    /\ Accepts(ANFA_Edges(delta), q0[1], f[1], <<"b">>)
    /\ ~Accepts(ANFA_Edges(delta), q0[1], f[1], <<>>)
    /\ ~Accepts(ANFA_Edges(delta), q0[1], f[1], <<"a", "b">>)

\* The sequence encoding (a|b)*b.
AOrBStarB ==
    << <<"expr_a", "a">>, <<"expr_a", "b">>, <<"union">>, <<"star">>,
       <<"expr_a", "b">>, <<"concatenate">> >>

\* C16: the sequence literal a, literal b, union, star, literal b,
\* concatenate, issued to the forward compiler on a fresh automaton, leaves
\* one fragment, which accepts exactly the strings over {a, b} that end in
\* 'b'.
C16_ForwardAOrBStarB ==
    (api = "ForwardCompiler" /\ prog = AOrBStarB)
        => /\ ret.ok
           /\ Len(anfa.automata_refs) = 1
           /\ Accepted(Forward_Edges(anfa.delta),
                       anfa.automata_refs[1][1], anfa.automata_refs[1][2])
                 = {w \in Words : Len(w) >= 1 /\ w[Len(w)] = "b"}

\* C16 witness: the forward compiler ran the sequence; its fragment accepts
\* "b" and "ab" and rejects "" and "ba".
C16_Witness ==
    /\ api = "ForwardCompiler"
    /\ prog = AOrBStarB
    /\ Len(anfa.automata_refs) = 1
    /\ LET E == Forward_Edges(anfa.delta)
           s == anfa.automata_refs[1][1]
           t == anfa.automata_refs[1][2]
       IN  /\ Accepts(E, s, t, <<"b">>)
           /\ Accepts(E, s, t, <<"a", "b">>)
           /\ ~Accepts(E, s, t, <<>>)
           /\ ~Accepts(E, s, t, <<"b", "a">>)

\* The forward compiler's record of a state without transitions.
NoTransition == <<None, <<None, None>> >>

\* C21: union with at least two refs on the stack (a below b) succeeds,
\* shrinks the stack by one, appends exactly two states, leaves on top a
\* ref whose q0 record is the fork [a.q0, b.q0] and whose f is empty, and
\* sets the records of a.f and b.f each to one unlabeled edge to the new f.
C21_ForwardUnion ==
    [][ (forward_union /\ Len(anfa.automata_refs) >= 2)
            => LET n == Len(anfa.automata_refs)
                   a == anfa.automata_refs[n - 1]
                   b == anfa.automata_refs[n]
                   len == Len(anfa.delta)
                   c == anfa'.automata_refs[n - 1]
               IN  /\ ret'.ok
                   /\ Len(anfa'.automata_refs) = n - 1
                   /\ Len(anfa'.delta) = len + 2
                   /\ c[1] \in len..(len + 1)
                   /\ c[2] \in len..(len + 1)
                   /\ At(anfa'.delta, c[1]) = <<None, <<Some(a[1]), Some(b[1])>> >>
                   /\ At(anfa'.delta, c[2]) = NoTransition
                   /\ At(anfa'.delta, a[2]) = <<None, <<Some(c[2]), None>> >>
                   /\ At(anfa'.delta, b[2]) = <<None, <<Some(c[2]), None>> >> ]_vars

\* C21 witness: the union of two fragments, one of them a literal, was
\* built.
C21_Witness ==
    /\ ret.op = "union"
    /\ ret.ok
    /\ Len(anfa.automata_refs) >= 1
    /\ \E q \in 0..(Len(anfa.delta) - 1) : At(anfa.delta, q)[1] # None

\* C22: expr_0, expr_1 and expr_a always succeed; each pushes exactly one
\* ref, appends exactly 2, 1 and 2 states respectively, and leaves every
\* pre-existing record and every ref already on the stack unchanged.
C22_ForwardBuilders ==
    [][ LET len == Len(anfa.delta)
            n == Len(anfa.automata_refs)
            Frame(k) ==
                /\ ret'.ok
                /\ Len(anfa'.delta) = len + k
                /\ SubSeq(anfa'.delta, 1, len) = anfa.delta
                /\ Len(anfa'.automata_refs) = n + 1
                /\ SubSeq(anfa'.automata_refs, 1, n) = anfa.automata_refs
        IN  /\ forward_expr_0 => Frame(2)
            /\ forward_expr_1 => Frame(1)
            /\ forward_expr_a => Frame(2) ]_vars

\* C22 witness: expr_1 was called on an automaton that already held a
\* literal and at least one ref.
C22_Witness ==
    /\ ret.op = "expr_1"
    /\ ret.ok
    /\ Len(anfa.automata_refs) >= 2
    /\ \E q \in 0..(Len(anfa.delta) - 1) : At(anfa.delta, q)[1] # None

\* C23: concatenate with fewer than two refs on the stack and star with no
\* ref on the stack return their insufficient-operands error and leave the
\* table and the stack unchanged.
C23_ForwardInsufficient ==
    [][ /\ (forward_concatenate /\ Len(anfa.automata_refs) < 2)
              => /\ ret'.ok = FALSE
                 /\ ret'.err = "Concatenation requires two operands."
                 /\ anfa' = anfa
        /\ (forward_star /\ Len(anfa.automata_refs) = 0)
              => /\ ret'.ok = FALSE
                 /\ ret'.err = "Star requires one operand."
                 /\ anfa' = anfa ]_vars

\* C23 witness: concatenate failed with exactly one ref on the stack, on a
\* table of at least two states.
C23_Witness ==
    /\ ret.op = "concatenate"
    /\ ret.ok = FALSE
    /\ Len(anfa.automata_refs) = 1
    /\ Len(anfa.delta) >= 2

\* C24 as stated: union with fewer than two refs on the stack returns
\* "Union requires two operands." and leaves the table and the stack
\* unchanged.
C24_ForwardUnionInsufficient ==
    [][ (forward_union /\ Len(anfa.automata_refs) < 2)
            => /\ ret'.ok = FALSE
               /\ ret'.err = "Union requires two operands."
               /\ anfa' = anfa ]_vars

\* C25 as stated: no call ever returns one of the "(Race condition.)"
\* errors.
C25_RaceUnreachable ==
    ret.err \notin {ErrConcatRace, ErrStarRace, ErrUnionRace}

\* The dual call's Result against the two sub-calls' Results fr and cr.
DualResult(fr, cr) ==
    /\ ret'.ok <=> (fr.res.ok /\ cr.res.ok)
    /\ ~fr.res.ok => ret'.err = fr.res.err
    /\ (fr.res.ok /\ ~cr.res.ok) => ret'.err = cr.res.err

DualAgree(fr, cr) == fr.res.ok <=> cr.res.ok

\* C27: in every sequence of dual calls that starts from a from_expr_*
\* constructor, each call succeeds on both automata or fails on both, and
\* after every call the two automata hold the same number of operand refs.
C27_Lockstep ==
    /\ [](Len(anfa.automata_refs) = coverage_machine.operand_refs)
    /\ [][/\ dual_expr_0 =>
                DualAgree(ForwardCompiler_expr_0(anfa),
                          CoverageCompiler_expr_0(coverage_machine))
          /\ dual_expr_1 =>
                DualAgree(ForwardCompiler_expr_1(anfa),
                          CoverageCompiler_expr_1(coverage_machine))
          /\ \A c \in Alphabet :
                Dual("expr_a", BidirectionalCompiler_expr_a(anfa, coverage_machine, c)) =>
                    DualAgree(ForwardCompiler_expr_a(anfa, c),
                              CoverageCompiler_expr_a(coverage_machine, c))
          /\ dual_concatenate =>
                DualAgree(ForwardCompiler_concatenate(anfa),
                          CoverageCompiler_concatenate(coverage_machine))
          /\ dual_star =>
                DualAgree(ForwardCompiler_star(anfa),
                          CoverageCompiler_star(coverage_machine))
          /\ dual_union =>
                DualAgree(ForwardCompiler_union(anfa),
                          CoverageCompiler_union(coverage_machine))]_vars

\* The coverage automaton after a dual call whose forward sub-call fr
\* failed is as before the call.
CoverageUntouched(fr) == ~fr.res.ok => coverage_machine' = coverage_machine

CoverageCalled(fr, cr) ==
    ~fr.res.ok =>
        /\ ~ret'.ok
        /\ ret'.err = fr.res.err
        /\ coverage_machine' = cr.anfa

HasEpsilon(machine, q, q_to) ==
    LET targets == Get(machine.delta[q + 1], None)
    IN  /\ targets # None
        /\ \E i \in DOMAIN targets[1] : targets[1][i] = q_to

\* C29: for machines a and b that each have a match state, concatenation
\* succeeds with |Q_c| = |Q_a| + |Q_b|, a's q0, |F_c| = |F_b|, and an
\* epsilon transition from every former match state of a to b's initial
\* state shifted by |Q_a|.
C29_Concatenation ==
    [][(/\ fa_concatenation
        /\ Len(Machine(1).f) >= 1
        /\ Len(Machine(0).f) >= 1) =>
            LET machine_a == Machine(1)
                machine_b == Machine(0)
                machine_c == machines'[Len(machines')]
            IN  /\ ret'.ok
                /\ Len(machines') = Len(machines) - 1
                /\ Len(machine_c.delta) = Len(machine_a.delta) + Len(machine_b.delta)
                /\ machine_c.q0 = machine_a.q0
                /\ Len(machine_c.f) = Len(machine_b.f)
                /\ \A i \in DOMAIN machine_a.f :
                       HasEpsilon(machine_c, machine_a.f[i],
                                  Len(machine_a.delta) + machine_b.q0)]_vars

\* C30: concatenation is associative up to structural equality: for three
\* machines with match states, (a . b) . c and a . (b . c) are the same FA.
C30_ConcatenationAssociative ==
    (/\ Len(machines) = 3
     /\ \A i \in 1..3 : Len(machines[i].f) >= 1) =>
        LET machine_ab == from_concatenation(machines[1], machines[2])
            machine_bc == from_concatenation(machines[2], machines[3])
        IN  /\ machine_ab.ok
            /\ machine_bc.ok
            /\ from_concatenation(machine_ab.val[1], machines[3]).ok
            /\ from_concatenation(machine_ab.val[1], machines[3])
                   = from_concatenation(machines[1], machine_bc.val[1])

\* C30 witness: the caller holds three machines with match states, the
\* second of them made by star or union (its initial state is not state 0),
\* and the two ways of concatenating them give one four-state or larger FA.
C30_Witness ==
    /\ Len(machines) = 3
    /\ \A i \in 1..3 : Len(machines[i].f) >= 1
    /\ machines[2].q0 # 0
    /\ LET machine_ab_c ==
               from_concatenation(from_concatenation(machines[1], machines[2]).val[1],
                                  machines[3])
           machine_a_bc ==
               from_concatenation(machines[1],
                                  from_concatenation(machines[2], machines[3]).val[1])
       IN  /\ machine_ab_c.ok
           /\ machine_ab_c = machine_a_bc
           /\ Len(machine_ab_c.val[1].delta) >= 4

\* The machine the last call returned.
Newest == machines'[Len(machines')]

\* C31: star(a) adds exactly one state and one match state; the new state
\* is the new q0 and a match state, every former match state of a has an
\* epsilon transition to it, and it has an epsilon transition to a's
\* former q0.
C31_Star ==
    [][fa_star =>
        LET machine_a == Machine(0)
            machine_b == Newest
        IN  /\ ret'.ok
            /\ Len(machine_b.delta) = Len(machine_a.delta) + 1
            /\ Len(machine_b.f) = Len(machine_a.f) + 1
            /\ machine_b.q0 = Len(machine_a.delta)
            /\ \E i \in DOMAIN machine_b.f : machine_b.f[i] = machine_b.q0
            /\ \A i \in DOMAIN machine_a.f :
                   HasEpsilon(machine_b, machine_a.f[i], machine_b.q0)
            /\ HasEpsilon(machine_b, machine_b.q0, machine_a.q0)]_vars

\* C32: union(a, b) creates exactly one new state, the new q0, with exactly
\* two epsilon transitions, to a's q0 and to b's q0 shifted by |Q_a| + 1,
\* and the result has |F_a| + |F_b| match states.
C32_Union ==
    [][fa_union =>
        LET machine_a == Machine(1)
            machine_b == Machine(0)
            machine_c == Newest
            targets == Get(machine_c.delta[machine_c.q0 + 1], None)
        IN  /\ ret'.ok
            /\ Len(machine_c.delta) = Len(machine_a.delta) + Len(machine_b.delta) + 1
            /\ machine_c.q0 = Len(machine_a.delta)
            /\ targets # None
            /\ Len(targets[1]) = 2
            /\ HasEpsilon(machine_c, machine_c.q0, machine_a.q0)
            /\ HasEpsilon(machine_c, machine_c.q0,
                          machine_b.q0 + Len(machine_a.delta) + 1)
            /\ Len(machine_c.f) = Len(machine_a.f) + Len(machine_b.f)]_vars

\* C33: concatenation(a, b) returns the error "No match states, cannot
\* concatenate machine" exactly when a or b has no match state, and
\* succeeds for every other pair of machines.
C33_ConcatenationError ==
    [][fa_concatenation =>
        LET none == Len(Machine(1).f) = 0 \/ Len(Machine(0).f) = 0
        IN  /\ ret'.ok <=> ~none
            /\ none => ret'.err = ErrNoMatchStates
            /\ none => Len(machines') = Len(machines) - 2
            /\ ~none => Len(machines') = Len(machines) - 1]_vars

\* C33 witness: a concatenation whose operands were moved in failed with
\* the error, and the caller is left with one machine.
C33_Witness ==
    /\ ret.op = "concatenation"
    /\ ~ret.ok
    /\ ret.err = ErrNoMatchStates
    /\ Len(machines) = 1

\* C34: epsilon() has one state, which is q0 and the only match state, and
\* no transition; literal(c) has two states, one transition from q0 on c to
\* the single match state, which is not q0 and has no transition; nothing()
\* has one state, q0 = 0, no transition and no match state.
C34_AcceptorShapes ==
    [][/\ fa_epsilon =>
            /\ ret'.ok
            /\ Len(Newest.delta) = 1
            /\ Newest.q0 = 0
            /\ Newest.f = <<0>>
            /\ Newest.delta[1] = {}
       /\ \A c \in Alphabet :
            FACall("literal", 0, accept_literal(c)) =>
                /\ ret'.ok
                /\ Len(Newest.delta) = 2
                /\ Len(Newest.f) = 1
                /\ Newest.f[1] # Newest.q0
                /\ Newest.delta[Newest.q0 + 1] = {<<Some(c), <<Newest.f[1]>> >>}
                /\ Newest.delta[Newest.f[1] + 1] = {}
       /\ fa_nothing =>
            /\ ret'.ok
            /\ Len(Newest.delta) = 1
            /\ Newest.q0 = 0
            /\ Newest.f = <<>>
            /\ Newest.delta[1] = {}]_vars

\* C34 witness: the caller holds an epsilon, a literal and a nothing, made
\* in that order.
C34_Witness ==
    /\ ret.op = "nothing"
    /\ Len(machines) = 3
    /\ machines[1] = FA(<<{}>>, 0, <<0>>)
    /\ machines[2] = FA(<<{<<Some("a"), <<1>> >>}, {}>>, 0, <<1>>)
    /\ machines[3] = FA(<<{}>>, 0, <<>>)

\* C35: in every reachable state of the forward compiler a composition
\* succeeds exactly when the operand stack holds enough refs: concatenate
\* and union return Ok if and only if it holds at least two, star if and
\* only if it holds at least one.
C35_OkIffEnoughRefs ==
    [][/\ forward_concatenate => (ret'.ok <=> Len(anfa.automata_refs) >= 2)
       /\ forward_union => (ret'.ok <=> Len(anfa.automata_refs) >= 2)
       /\ forward_star => (ret'.ok <=> Len(anfa.automata_refs) >= 1)]_vars

\* C35 witness: a star succeeded on the only ref of the stack, a literal's.
C35_Witness ==
    /\ ret.op = "star"
    /\ ret.ok
    /\ Len(anfa.automata_refs) = 1
    /\ Len(anfa.delta) = 5

\* C36: every ref on the forward compiler's operand stack has a final state
\* whose record is empty, and any two refs on the stack have different
\* final states.
C36_StackFinalsDangling ==
    /\ \A i \in DOMAIN anfa.automata_refs :
           At(anfa.delta, anfa.automata_refs[i][2]) = NoTransition
    /\ \A i \in DOMAIN anfa.automata_refs, j \in DOMAIN anfa.automata_refs :
           i # j => anfa.automata_refs[i][2] # anfa.automata_refs[j][2]

\* C36 witness: the stack holds two refs, the lower one made by a star,
\* whose operand's final state has been overwritten.
C36_Witness ==
    /\ Len(anfa.automata_refs) = 2
    /\ anfa.automata_refs[1][1] >= 1
    /\ Len(anfa.delta) = 5

----------------------------------------------------------------------------
(* Any construction: the caller builds with one of the two APIs, the      *)
(* explicit-ref ANFA or the forward compiler, and calls any operation at   *)
(* any time, the failing ones included.                                    *)

ConstructionNext ==
    \/ api = "ANFA" /\ Next
    \/ api = "ForwardCompiler" /\ ForwardNext

ConstructionSpec == PostfixInit /\ [][ConstructionNext]_vars

\* C37: every edge destination stored in the table, and the q0 and f of
\* every returned or stacked ref, is strictly less than the table's length,
\* for the explicit-ref ANFA and for the forward compiler.
C37_IndicesValid ==
    /\ \A q \in DOMAIN delta : \A e \in DOMAIN delta[q] :
           delta[q][e][2] < Len(delta)
    /\ \A r \in refs : r.q0 < Len(delta) /\ r.f < Len(delta)
    /\ q0 # None => q0[1] < Len(delta)
    /\ f # None => f[1] < Len(delta)
    /\ \A q \in DOMAIN anfa.delta : \A k \in 1..2 :
           anfa.delta[q][2][k] # None => anfa.delta[q][2][k][1] < Len(anfa.delta)
    /\ \A i \in DOMAIN anfa.automata_refs :
           /\ anfa.automata_refs[i][1] < Len(anfa.delta)
           /\ anfa.automata_refs[i][2] < Len(anfa.delta)

\* C37 witness: the forward compiler's star succeeded on a literal; the
\* ref it pushed ends in the last state of the table of five.
C37_Witness ==
    /\ api = "ForwardCompiler"
    /\ ret.op = "star"
    /\ ret.ok
    /\ Len(anfa.delta) = 5
    /\ anfa.automata_refs = << <<2, 4>> >>

\* C38: the table's length is 2 times the number of successful expr_0 and
\* expr_a calls, plus the number of successful expr_1 calls, plus 3 times
\* the number of successful star calls, plus 2 times the number of
\* successful union calls; concatenate calls and failed calls add nothing.
C38_TableLength ==
    LET n == 2 * (successes["expr_0"] + successes["expr_a"]) + successes["expr_1"]
             + 3 * successes["star"] + 2 * successes["union"]
    IN  /\ api = "ANFA" => Len(delta) = n
        /\ api = "ForwardCompiler" => Len(anfa.delta) = n

\* C38 witness: the forward compiler has made two expr_1 fragments,
\* concatenated them and starred the result, and then a call has failed;
\* the table has 1 + 1 + 0 + 3 states.
C38_Witness ==
    /\ api = "ForwardCompiler"
    /\ successes["expr_1"] = 2
    /\ successes["concatenate"] = 1
    /\ successes["star"] = 1
    /\ ~ret.ok
    /\ Len(anfa.delta) = 5

====
